---- MODULE Spec2Model ----
(***************************************************************************)
(* A model of go-kita/log: the level store, the level resolution of named  *)
(* loggers, the printers with their field lists and the std outputter.     *)
(*                                                                         *)
(* std.go holds two versions of the package: the manager version (a        *)
(* Manager with a level map and printers that check the level on every     *)
(* print) and the provider version (a global LevelStore, stdLogger,        *)
(* stdPrinter and OutPutter).  A program is built from one of them; the    *)
(* variable version says which.                                            *)
(*                                                                         *)
(* A logger name is a sequence of one-character strings, so that the       *)
(* separator search of the lookup is computed and not assumed.             *)
(*                                                                         *)
(* The fields of a record are written in one order throughout, the order   *)
(* in which the names first appear in the module, which is the order TLC   *)
(* keeps them in: a record is then in normal form as it is built.          *)
(***************************************************************************)
EXTENDS Integers, Sequences, FiniteSets, TLC

(***************************************************************************)
(* State.                                                                  *)
(***************************************************************************)
VARIABLES
    version,            \* "provider" or "manager": the version the program is built from
    store,              \* provider: the map behind stdLevelStore.store
    defaultLevelStore,  \* provider: "std" (the store is registered) or "nil"
    levels,             \* manager: manager.levels
    levelNames,         \* the level-name table
    logger,             \* the Logger handle the caller holds
    vend,               \* history: the effective level of logger when it was handed out
    printer,            \* the Printer the caller holds
    ref,                \* history: the ordered map the With calls on printer build
    out,                \* the writer: the Output calls it received, the last in full
    call,               \* the last completed call with its arguments and result
    procs,              \* the goroutines inside a Set or UnSet, each with its locals
    heap,               \* the maps the swaps of concurrent calls made l.store point at, in order
    order,              \* history: the calls in the order of their successful swap
    regs,               \* the goroutines inside a RegisterLevelName, each with its locals
    tables,             \* the tables the swaps of concurrent calls made levelNames point at
    loggerProvider,     \* the registered LoggerProvider, "nil" when it is the nil func
    users,              \* the goroutines inside UseProvider or the free function Get
    lastUse,            \* history: the argument of the last completed registration calls
    registeredManager,  \* manager: the registered Manager, "nil" when there is none
    instances,          \* manager: manager.instances, the logger cached for each name
    getters,            \* the goroutines inside manager.Get, each with its locals
    output              \* provider: the filter layers around the std outputter of the loggers

(***************************************************************************)
(* Levels (level.go).  Level is an int8.                                   *)
(***************************************************************************)
DebugLevel == -1
InfoLevel == 0
WarnLevel == 1
ErrorLevel == 2
ClosedLevel == 127
allLevel == -128

\* The candidate levels a caller asks for.
Levels == {allLevel, DebugLevel, InfoLevel, WarnLevel, ErrorLevel, ClosedLevel}

\* The levels the model writes into a level store or a manager.
SetLevels == {DebugLevel, WarnLevel, ClosedLevel}

(***************************************************************************)
(* Names.                                                                  *)
(***************************************************************************)
Root == <<>>
nA == <<"a">>
nB == <<"b">>
nAB == <<"a", "b">>
nA_B == <<"a", "/", "b">>
nAdB == <<"a", ".", "b">>
nA_ == <<"a", "/">>
n_A == <<"/", "a">>
nA_B_C == <<"a", "/", "b", "/", "c">>
nA_BdC == <<"a", "/", "b", ".", "c">>
nAdB_C == <<"a", ".", "b", "/", "c">>
nA__B == <<"a", "/", "/", "b">>

\* The names the lookup is asked for.
Names == {Root, nA, nB, nAB, nA_B, nAdB, nA_, n_A, nA_B_C, nA_BdC, nAdB_C, nA__B}

\* The names the model sets a level for.
StoreNames == {Root, nA, nA_B, nAdB, nA_, nA_B_C}

\* The most entries a level map holds in the model.
MaxEntries == 3

Max(S) == CHOOSE x \in S : \A y \in S : y <= x

\* strings.LastIndexFunc(name, r == '.' || r == '/'): Go's 0-based index of
\* the last separator, -1 when there is none.
IsSeparator(r) == r = "." \/ r = "/"

LastIndexFunc(name) ==
    LET idx == {i \in 1..Len(name) : IsSeparator(name[i])}
    IN IF idx = {} THEN -1 ELSE Max(idx) - 1

MapIndexAll(m, name) ==
    \* faulty variant: a missing entry reads as allLevel
    IF name \in DOMAIN m THEN m[name] ELSE allLevel

\* m[name] of a Go map[string]Level: the zero Level when there is no entry.
MapIndex(m, name) == IF name \in DOMAIN m THEN m[name] ELSE 0

(***************************************************************************)
(* stdLevelStore (provider version).                                       *)
(* The map behind l.store is never nil: NewStdLevelStore, Set and UnSet    *)
(* all install a map literal, so Get's nil branch is not reachable.        *)
(***************************************************************************)
RECURSIVE stdLevelStoreGet(_, _)
stdLevelStoreGetShortest(m, name) ==
    \* faulty variant: the first segment wins over a longer ancestor
    LET idx == {i \in 1..Len(name) : IsSeparator(name[i])}
        first == IF idx = {} THEN name
                 ELSE SubSeq(name, 1, (CHOOSE i \in idx : \A j \in idx : i <= j) - 1)
    IN IF first # <<>> /\ first \in DOMAIN m THEN m[first]
       ELSE IF name \in DOMAIN m THEN m[name]
       ELSE MapIndex(m, Root)

stdLevelStoreGet(m, name) ==
    IF name = <<>> THEN MapIndex(m, Root)
    ELSE IF name \in DOMAIN m THEN m[name]
    ELSE LET lastIndex == LastIndexFunc(name)
         IN IF lastIndex = -1 THEN MapIndex(m, Root)
            ELSE stdLevelStoreGet(m, SubSeq(name, 1, lastIndex))

SetMapNoCopy(m, name, level) ==
    \* faulty variant: the entries of the old map are not copied
    [k \in {name} |-> level]

\* The map a successful Set installs: a copy of the old one with name set.
SetMap(m, name, level) ==
    [k \in DOMAIN m \cup {name} |-> IF k = name THEN level ELSE m[k]]

UnSetMapKeepAll(m, name) ==
    \* faulty variant: the copy loop skips nothing
    m

\* The map a successful UnSet installs: a copy of the old one without name.
UnSetMap(m, name) == [k \in DOMAIN m \ {name} |-> m[k]]

\* NewStdLevelStore(): the root entry at InfoLevel; the options are Set calls.
NewStdLevelStore == [k \in {Root} |-> InfoLevel]

(***************************************************************************)
(* logger (manager version): the level map of the manager is a hashmap     *)
(* that Manager.Level writes and logger.level reads.                       *)
(***************************************************************************)
\* What rootLevel.(Level) would be asked to convert when the root entry is
\* missing: no Level at all (the type assertion panics).
NoLevel == ClosedLevel + 1

HashMapGet(m, name) == IF name \in DOMAIN m THEN m[name] ELSE NoLevel

RECURSIVE loggerLevel(_, _)
loggerLevel(m, name) ==
    IF name = <<>> THEN HashMapGet(m, Root)
    ELSE IF name \in DOMAIN m THEN m[name]
    ELSE LET lastIndex == LastIndexFunc(name)
         IN IF lastIndex = -1 THEN HashMapGet(m, Root)
            ELSE loggerLevel(m, SubSeq(name, 1, lastIndex))

loggerLevelEnabledNoClosed(m, name, level) == loggerLevel(m, name) <= level

loggerLevelEnabled(m, name, level) ==
    LET ll == loggerLevel(m, name)
    IN ll # ClosedLevel /\ ll <= level

\* NewManager(out): the root entry at InfoLevel; the options are Level calls.
NewManagerNoRoot ==
    \* faulty variant: NewManager without its Level("", InfoLevel)
    [k \in {} |-> InfoLevel]

NewManager == [k \in {Root} |-> InfoLevel]

(***************************************************************************)
(* stdLogger (provider version): the level is resolved per call through    *)
(* the registered LevelStore, InfoLevel when none is registered.           *)
(***************************************************************************)
stdLoggerLevelCached(dls, m, name) ==
    \* faulty variant: the handle keeps the level it resolved when it was handed out
    vend

stdLoggerLevelOfStore(dls, m, name) ==
    \* faulty variant: the store is asked although it is not registered
    stdLevelStoreGet(m, name)

stdLoggerLevel(dls, m, name) ==
    IF dls # "nil" THEN stdLevelStoreGet(m, name) ELSE InfoLevel

stdLoggerLevelEnabledNoClosed(dls, m, name, level) ==
    stdLoggerLevel(dls, m, name) <= level

stdLoggerLevelEnabled(dls, m, name, level) ==
    LET ll == stdLoggerLevel(dls, m, name)
    IN ll # ClosedLevel /\ ll <= level

(***************************************************************************)
(* Level.String (level.go): the registered name, Level(<n>) without one.   *)
(***************************************************************************)
DefaultLevelNames ==
    [l \in {DebugLevel, InfoLevel, WarnLevel, ErrorLevel} |->
        CASE l = DebugLevel -> "DEBUG"
          [] l = InfoLevel -> "INFO"
          [] l = WarnLevel -> "WARN"
          [] OTHER -> "ERROR"]

LevelString(names, l) ==
    LET name == IF l \in DOMAIN names THEN names[l] ELSE ""
    IN IF name = "" THEN <<"Level(", ToString(l), ")">> ELSE <<name>>

RegisterNameMapSkipEmpty(names, l, name) ==
    \* faulty variant: an empty name registers nothing
    IF name = "" THEN names
    ELSE [k \in DOMAIN names \cup {l} |-> IF k = l THEN name ELSE names[k]]

\* The table RegisterLevelName builds: a copy of names with mp[level] = name.
RegisterNameMap(names, l, name) ==
    [k \in DOMAIN names \cup {l} |-> IF k = l THEN name ELSE names[k]]

(***************************************************************************)
(* Field values.  A value is a Level, a string (kept as its pieces) or a   *)
(* Valuer; a Valuer is a function of the context.                          *)
(***************************************************************************)
LevelValue(l) == [kind |-> "level", lvl |-> l, s |-> <<>>]
StringValue(s) == [kind |-> "string", lvl |-> 0, s |-> s]
ValuerValue(f) == [kind |-> "valuer", lvl |-> 0, s |-> <<f>>]

\* The nil interface value; %v prints it as <nil>.
NilValue == [kind |-> "nil", lvl |-> 0, s |-> <<"<nil>">>]

\* The Valuers of the model: "fromCtx" reads the context, "nested" returns
\* "fromCtx", "nested3" returns "nested" and "nilValuer" returns nil.
ValuerCall(f, ctx) ==
    CASE f = "nested" -> ValuerValue("fromCtx")
      [] f = "nested3" -> ValuerValue("nested")
      [] f = "nilValuer" -> NilValue
      [] OTHER -> StringValue(<<"@", ctx>>)

ValueLoopOnce(ctx, v, invoked) ==
    \* faulty variant: the result of the first Valuer is not resolved again
    IF v.kind = "valuer"
    THEN [v |-> ValuerCall(v.s[1], ctx),
          invoked |-> Append(invoked, [f |-> v.s[1], ctx |-> ctx])]
    ELSE [v |-> v, invoked |-> invoked]

\* The loop of Value: v after it, and the Valuers it invoked, each with the
\* context it was given, in the order of the invocations.
RECURSIVE ValueLoop(_, _, _)
ValueLoop(ctx, v, invoked) ==
    IF v.kind = "valuer"
    THEN ValueLoop(ctx, ValuerCall(v.s[1], ctx),
                   Append(invoked, [f |-> v.s[1], ctx |-> ctx]))
    ELSE [v |-> v, invoked |-> invoked]

\* Value(ctx, v)
Value(ctx, v) == ValueLoop(ctx, v, <<>>).v

\* The %v verb on a resolved value.
FormatValue(names, v) ==
    IF v.kind = "level" THEN LevelString(names, v.lvl) ELSE v.s

Field(key, value) == [Value |-> value, Key |-> key]

(***************************************************************************)
(* fmt.Sprint, fmt.Sprintln and fmt.Sprintf on operands that are strings   *)
(* or not (numbers, booleans), each with its text.                         *)
(***************************************************************************)
Str(text) == [text |-> text, str |-> TRUE]
Num(text) == [text |-> text, str |-> FALSE]

RECURSIVE Sprint(_)
Sprint(v) ==
    IF v = <<>> THEN <<>>
    ELSE IF Len(v) = 1 THEN <<v[1].text>>
    ELSE LET init == Sprint(SubSeq(v, 1, Len(v) - 1))
             last == v[Len(v)]
             prev == v[Len(v) - 1]
         IN IF ~last.str /\ ~prev.str THEN init \o <<" ", last.text>>
            ELSE init \o <<last.text>>

RECURSIVE SprintlnOperands(_)
SprintlnOperands(v) ==
    IF v = <<>> THEN <<>>
    ELSE IF Len(v) = 1 THEN <<v[1].text>>
    ELSE SprintlnOperands(SubSeq(v, 1, Len(v) - 1)) \o <<" ", v[Len(v)].text>>

Sprintln(v) == SprintlnOperands(v) \o <<"\n">>

\* A format is a sequence of pieces, "%v" standing for a verb.
RECURSIVE Sprintf(_, _)
Sprintf(format, v) ==
    IF format = <<>> THEN <<>>
    ELSE IF format[1] = "%v"
         THEN IF v = <<>> THEN <<"%!v(MISSING)">> \o Sprintf(Tail(format), v)
              ELSE <<v[1].text>> \o Sprintf(Tail(format), Tail(v))
         ELSE <<format[1]>> \o Sprintf(Tail(format), v)

\* buf.Truncate(buf.Len() - 1): the last byte goes.
TruncateLast(line) == SubSeq(line, 1, Len(line) - 1)

(***************************************************************************)
(* stdOutPutter.OutPut: a line is the sequence of its pieces.  The writer   *)
(* is seen through the Output calls it receives: their number, and the     *)
(* frame depth and line of the last one.                                   *)
(***************************************************************************)
NoOutput == [line |-> <<>>, n |-> 0, depth |-> 0]

\* log.Logger.Output(depth, line) on the writer w.
WriterOutput(w, depth, line) == [line |-> line, n |-> w.n + 1, depth |-> depth]

RECURSIVE ComposeFieldsAll(_, _, _)
ComposeFieldsAll(names, ctx, fields) ==
    \* faulty variant: fields with an empty key are written too
    IF fields = <<>> THEN <<>>
    ELSE <<fields[1].Key, "=">> \o FormatValue(names, Value(ctx, fields[1].Value))
             \o <<" ">> \o ComposeFieldsAll(names, ctx, Tail(fields))

RECURSIVE ComposeFields(_, _, _)
ComposeFields(names, ctx, fields) ==
    IF fields = <<>> THEN <<>>
    ELSE IF fields[1].Key = "" THEN ComposeFields(names, ctx, Tail(fields))
    ELSE <<fields[1].Key, "=">> \o FormatValue(names, Value(ctx, fields[1].Value))
             \o <<" ">> \o ComposeFields(names, ctx, Tail(fields))

stdOutPutterOutPutDepth2(w, names, ctx, msg, fields, callDepth) ==
    \* faulty variant: the std outputter adds 2 to callDepth
    WriterOutput(w, callDepth + 2, ComposeFields(names, ctx, fields) \o msg)

stdOutPutterOutPut(w, names, ctx, msg, fields, callDepth) ==
    WriterOutput(w, callDepth + 3, ComposeFields(names, ctx, fields) \o msg)

(***************************************************************************)
(* OutPutFilter.  A filter holds its underlying output, enableFunc and     *)
(* fieldModifyFunc; a func is named by what it does, "nil" being the nil   *)
(* func.  The underlying output of the model is the std outputter.         *)
(***************************************************************************)
\* FilterEnable(o, f), o not nil.
FilterEnable(f) ==
    [name |-> "", underlying |-> "std", enableFunc |-> f,
     fieldModifyFunc |-> "nil", replace |-> StringValue(<<>>)]

\* FilterRemoveField(o, name), o not nil.
FilterRemoveField(name) ==
    [name |-> name, underlying |-> "std", enableFunc |-> "nil",
     fieldModifyFunc |-> "remove", replace |-> StringValue(<<>>)]

\* FilterCoverField(o, name, replace), o not nil.
FilterCoverField(name, replace) ==
    [name |-> name, underlying |-> "std", enableFunc |-> "nil",
     fieldModifyFunc |-> "cover", replace |-> replace]

\* The enable funcs of the model: the one of TestFilterEnable with the name
\* a as the sensitive one, and the constant ones.
enableFuncCall(f, ctx, name, level) ==
    CASE f = "warnUp" -> name # nA /\ level >= WarnLevel
      [] f = "always" -> TRUE
      [] OTHER -> FALSE

removeFieldValue(name, field) ==
    \* faulty variant: the value is blanked, the key stays
    IF field.Key = name THEN [field EXCEPT !.Value = StringValue(<<>>)] ELSE field

\* The fieldModifyFunc of FilterRemoveField on one field.
removeField(name, field) ==
    IF field.Key = name THEN [field EXCEPT !.Key = ""] ELSE field

coverFieldAll(name, replace, field) ==
    \* faulty variant: every value is replaced
    [field EXCEPT !.Value = replace]

\* The fieldModifyFunc of FilterCoverField on one field.
coverField(name, replace, field) ==
    IF field.Key # name THEN field ELSE [field EXCEPT !.Value = replace]

\* The loop over fields calling fieldModifyFunc on each; calling the nil
\* func panics, which happens as soon as there is a field.
ModifyFields(o, fields) ==
    [fields |->
        IF o.fieldModifyFunc = "remove"
        THEN [i \in 1..Len(fields) |-> removeField(o.name, fields[i])]
        ELSE IF o.fieldModifyFunc = "cover"
        THEN [i \in 1..Len(fields) |-> coverField(o.name, o.replace, fields[i])]
        ELSE fields,
     panic |-> o.fieldModifyFunc = "nil" /\ fields # <<>>]

\* OutPutFilter.OutPut: whether it panics, the calls the underlying output
\* receives, and the slice of the caller afterwards.
OutPutFilterOutPut(o, ctx, name, level, msg, fields, callDepth) ==
    IF o.underlying = "nil"
    THEN [panic |-> FALSE, under |-> <<>>, after |-> fields]
    ELSE IF o.enableFunc # "nil" /\ ~enableFuncCall(o.enableFunc, ctx, name, level)
    THEN [panic |-> FALSE, under |-> <<>>, after |-> fields]
    ELSE LET m == ModifyFields(o, fields)
         IN IF m.panic THEN [panic |-> TRUE, under |-> <<>>, after |-> fields]
            ELSE [panic |-> FALSE,
                  under |-> <<[name |-> name, level |-> level, ctx |-> ctx,
                               fields |-> m.fields, msg |-> msg,
                               callDepth |-> callDepth + 1]>>,
                  after |-> m.fields]

\* An output that is layers of OutPutFilter, the outermost first, around the
\* std outputter: the OutPut call that reaches the std outputter (under),
\* whether a layer panicked, the slice of the caller afterwards (every layer
\* works on the one slice), and the frames on the stack when the std
\* outputter calls the writer, those of the callers in frames included.
RECURSIVE OutPutChain(_, _, _, _, _, _, _, _)
OutPutChain(layers, ctx, name, level, msg, fields, callDepth, frames) ==
    IF layers = <<>>
    THEN [panic |-> FALSE,
          under |-> <<[name |-> name, level |-> level, ctx |-> ctx, fields |-> fields,
                       msg |-> msg, callDepth |-> callDepth]>>,
          after |-> fields,
          frames |-> frames \o <<"stdOutPutter.OutPut", "log.Logger.Output">>]
    ELSE LET r == OutPutFilterOutPut(layers[1], ctx, name, level, msg, fields,
                                     callDepth)
         IN IF r.under = <<>>
            THEN [panic |-> r.panic, under |-> <<>>, after |-> r.after,
                  frames |-> <<>>]
            ELSE OutPutChain(Tail(layers), r.under[1].ctx, r.under[1].name,
                             r.under[1].level, r.under[1].msg,
                             r.under[1].fields, r.under[1].callDepth,
                             Append(frames, "OutPutFilter.OutPut"))

(***************************************************************************)
(* Printers.  stdPrinter holds its logger (name and output), level, fields *)
(* and context; nopPrinter holds nothing.                                  *)
(***************************************************************************)
NoPrinter ==
    [name |-> Root, level |-> InfoLevel, kind |-> "none", ctx |-> "nil", fields |-> <<>>]
NopPrinter ==
    [name |-> Root, level |-> InfoLevel, kind |-> "nop", ctx |-> "nil", fields |-> <<>>]

stdPrinterWithAppend(fields, key, value) ==
    \* faulty variant: no search for an existing key
    IF key = "" THEN fields ELSE Append(fields, Field(key, value))

stdPrinterWithMoveLast(fields, key, value) ==
    \* faulty variant: an overwritten field moves to the end
    IF key = "" THEN fields
    ELSE Append(SelectSeq(fields, LAMBDA f : f.Key # key), Field(key, value))

\* stdPrinter.With on the field list.
stdPrinterWith(fields, key, value) ==
    IF key = "" THEN fields
    ELSE LET hit == {i \in 1..Len(fields) : fields[i].Key = key}
         IN IF hit # {}
            THEN LET i == CHOOSE j \in hit : \A k \in hit : j <= k
                 IN [fields EXCEPT ![i].Value = value]
            ELSE Append(fields, Field(key, value))

stdLoggerAtLevelUnchecked(dls, m, name, ctx, level) ==
    \* faulty variant: AtLevel without the level check
    [name |-> name, level |-> level, kind |-> "std",
     ctx |-> IF ctx = "nil" THEN "background" ELSE ctx,
     fields |-> <<Field("level", LevelValue(level)), Field("logger", StringValue(name))>>]

\* stdLogger.AtLevel
stdLoggerAtLevel(dls, m, name, ctx, level) ==
    IF ~stdLoggerLevelEnabled(dls, m, name, level) THEN NopPrinter
    ELSE [name |-> name, level |-> level, kind |-> "std",
          ctx |-> IF ctx = "nil" THEN "background" ELSE ctx,
          fields |-> <<Field("level", LevelValue(level)),
                       Field("logger", StringValue(name))>>]

levelVars == <<store, defaultLevelStore, levels, levelNames>>
handleVars == <<logger, vend>>
printVars == <<printer, ref, out>>
regVars == <<regs, tables>>
cowVars == <<procs, heap, order, regVars>>
useVars == <<loggerProvider, users, lastUse>>
mgrVars == <<registeredManager, instances, getters>>
vars == <<version, mgrVars, output, levelVars, handleVars, printVars, call,
          cowVars, useVars>>

\* "atomic" is the provider version whose registry is an atomic pointer and
\* which has no level store (part_008).
Versions == {"provider", "manager", "atomic"}

NoLogger == [name |-> Root, held |-> FALSE]
Handle(name) == [name |-> name, held |-> TRUE]

\* A logger object of the manager version: its name, and the call that
\* allocated it ("none": no object, "temp": the Get of the package on a
\* manager it built itself).
NoObject == [name |-> Root, by |-> "none"]
NewLoggerObject(name, by) == [name |-> name, by |-> by]

\* OutPutFilter{}: no underlying output and no funcs.
NoFilter ==
    [name |-> "", underlying |-> "nil", enableFunc |-> "nil",
     fieldModifyFunc |-> "nil", replace |-> StringValue(<<>>)]

NoCall ==
    [name |-> Root, level |-> InfoLevel, lvl |-> InfoLevel, ctx |-> "nil",
     invoked |-> <<>>, key |-> "", value |-> NilValue, fields |-> <<>>, msg |-> <<>>,
     under |-> <<>>, after |-> <<>>, frames |-> <<>>, op |-> "none",
     ok |-> FALSE, fresh |-> FALSE, filter |-> NoFilter,
     ret |-> NilValue, obj |-> NoObject]

\* The goroutines that call Set and UnSet at the same time, and one that is
\* in no call.  old and oldMap: oldStore and the map it points at; new: store.
Procs == {"g1", "g2", "g3"}
Idle ==
    [name |-> Root, level |-> InfoLevel, op |-> "none", pc |-> "idle",
     old |-> 0, oldMap |-> <<>>, new |-> <<>>, retried |-> FALSE, seen |-> 1]

\* The locals of a goroutine in RegisterLevelName.  mp: the copy it builds;
\* src: the table the copy was made of; old: the pointer it hands to the swap.
IdleReg ==
    [name |-> "", level |-> InfoLevel, pc |-> "idle", old |-> 0, retried |-> FALSE,
     src |-> 0, mp |-> <<>>]

\* The locals of a goroutine in UseProvider or Get.  arg: the provider passed
\* to UseProvider; p: the provider Get loaded first; changed: the registry
\* pointer was swapped since UseProvider loaded old; ret: what Get returned.
IdleUser ==
    [op |-> "none", ret |-> "none", pc |-> "idle", arg |-> "nil",
     p |-> "nil", changed |-> FALSE]

\* The locals of a goroutine in manager.Get.  A logger object is known by
\* the call that allocated it: "main" for a call run alone, the goroutine
\* otherwise.  ret: the object returned, no object before the return.
IdleGetter == [name |-> Root, ret |-> NoObject, pc |-> "idle"]

\* The ordered map of a field list: the keys in order, and each key's value.
NoRef == [order |-> <<>>, val |-> <<>>]

\* The state after the package initialisation, the level store being m, the
\* level map of the manager lv and the output of the loggers the layers o
\* around the std outputter.
InitAll(m, lv, o) ==
    /\ version \in Versions
    /\ store = m
    /\ defaultLevelStore = "std"
    /\ levels = lv
    /\ levelNames = DefaultLevelNames
    /\ logger = NoLogger
    /\ vend = InfoLevel
    /\ printer = NoPrinter
    /\ ref = NoRef
    /\ out = NoOutput
    /\ call = NoCall
    /\ procs = [p \in Procs |-> Idle]
    /\ heap = <<m>>
    /\ regs = [g \in Procs |-> IdleReg]
    /\ tables = <<DefaultLevelNames>>
    /\ order = <<>>
    /\ loggerProvider = "std"
    /\ users = [g \in Procs |-> IdleUser]
    /\ lastUse = [store |-> "std", provider |-> "std"]
    /\ registeredManager = "nil"
    /\ instances = <<>>
    /\ getters = [g \in Procs |-> IdleGetter]
    /\ output = o

\* The same with the std outputter as the output of the loggers.
InitMaps(m, lv) == InitAll(m, lv, <<>>)

\* The state after the package initialisation, the level store being m.
InitStore(m) == InitMaps(m, NewManager)

Init == InitStore(NewStdLevelStore)

\* The level the logger of that name resolves right now.
EffectiveLevel(name) ==
    IF version = "provider" THEN stdLoggerLevel(defaultLevelStore, store, name)
    ELSE loggerLevel(levels, name)

(***************************************************************************)
(* Provider version: the level store and its registration.                 *)
(***************************************************************************)
\* stdLevelStore.Set run alone: the first compare-and-swap succeeds (heap
\* follows only the calls that run statement by statement).
\* call.fresh: name had no entry; call.lvl: the level name resolved to before.
Set(name, level) ==
    /\ version = "provider"
    /\ name \in DOMAIN store \/ Cardinality(DOMAIN store) < MaxEntries
    /\ store' = SetMap(store, name, level)
    /\ call' = [NoCall EXCEPT !.op = "Set", !.name = name, !.level = level,
                  !.fresh = name \notin DOMAIN store,
                  !.lvl = stdLevelStoreGet(store, name)]
    /\ UNCHANGED <<version, mgrVars, output, defaultLevelStore, levels, levelNames, handleVars, printVars, cowVars, useVars>>

\* stdLevelStore.UnSet run alone.  call.ok: it follows Set(name, ClosedLevel),
\* and call.fresh and call.lvl are the ones of that Set.
UnSet(name) ==
    /\ version = "provider"
    /\ store' = UnSetMap(store, name)
    /\ call' = LET follows == call.op = "Set" /\ call.name = name
                              /\ call.level = ClosedLevel
               IN [NoCall EXCEPT !.op = "UnSet", !.name = name, !.ok = follows,
                     !.fresh = follows /\ call.fresh,
                     !.lvl = IF follows THEN call.lvl ELSE InfoLevel]
    /\ UNCHANGED <<version, mgrVars, output, defaultLevelStore, levels, levelNames, handleVars, printVars, cowVars, useVars>>

\* stdLevelStore.Get(name)
Get(name) ==
    /\ version = "provider"
    /\ call' = [NoCall EXCEPT !.op = "Get", !.name = name,
                  !.lvl = stdLevelStoreGet(store, name)]
    /\ UNCHANGED <<version, mgrVars, output, levelVars, handleVars, printVars, cowVars, useVars>>

\* UseLevelStore(s): s is the std store or nil.
UseLevelStore(s) ==
    /\ version = "provider"
    /\ defaultLevelStore' = s
    /\ lastUse' = [lastUse EXCEPT !.store = s]
    /\ call' = [NoCall EXCEPT !.op = "UseLevelStore", !.key = s]
    /\ UNCHANGED <<version, mgrVars, output, store, levels, levelNames, handleVars, printVars, cowVars,
                   loggerProvider, users>>

\* NoLevelStore()
NoLevelStore ==
    /\ version = "provider"
    /\ defaultLevelStore' = "nil"
    /\ lastUse' = [lastUse EXCEPT !.store = "nil"]
    /\ call' = [NoCall EXCEPT !.op = "NoLevelStore"]
    /\ UNCHANGED <<version, mgrVars, output, store, levels, levelNames, handleVars, printVars, cowVars,
                   loggerProvider, users>>

\* NewStdLogger(name, output): the handle holds the name and the output only.
NewStdLogger(name) ==
    /\ version = "provider"
    /\ logger' = Handle(name)
    /\ vend' = EffectiveLevel(name)
    /\ call' = [NoCall EXCEPT !.op = "NewStdLogger", !.name = name]
    /\ UNCHANGED <<version, mgrVars, output, levelVars, printVars, cowVars, useVars>>

\* stdLogger.levelEnabled(level) on the held handle.
levelEnabled(level) ==
    /\ version = "provider"
    /\ logger.held
    /\ call' = [NoCall EXCEPT !.op = "levelEnabled", !.name = logger.name,
                  !.level = level,
                  !.ok = stdLoggerLevelEnabled(defaultLevelStore, store,
                                               logger.name, level)]
    /\ UNCHANGED <<version, mgrVars, output, levelVars, handleVars, printVars, cowVars, useVars>>

(***************************************************************************)
(* Provider version: printers.                                             *)
(***************************************************************************)
\* The ordered map built by one more With(key, value).
RefWith(r, key, value) ==
    IF key = "" THEN r
    ELSE [order |-> IF \E i \in 1..Len(r.order) : r.order[i] = key
                    THEN r.order ELSE Append(r.order, key),
          val |-> [k \in DOMAIN r.val \cup {key} |->
                      IF k = key THEN value ELSE r.val[k]]]

\* stdLogger.AtLevel(ctx, level) on the held handle; call.ok: the level was enabled.
AtLevel(ctx, level) ==
    /\ version = "provider"
    /\ logger.held
    /\ printer' = stdLoggerAtLevel(defaultLevelStore, store, logger.name, ctx, level)
    /\ ref' = IF printer'.kind = "std"
              THEN RefWith(RefWith(NoRef, "level", LevelValue(level)),
                           "logger", StringValue(logger.name))
              ELSE NoRef
    /\ call' = [NoCall EXCEPT !.op = "AtLevel", !.name = logger.name,
                  !.level = level, !.ctx = ctx]
    /\ UNCHANGED <<version, mgrVars, output, levelVars, handleVars, out, cowVars, useVars>>

\* Printer.With(key, value) on the held printer, the caller holding what it
\* returns.  call.ok: that is the receiver (every return of both With is p).
With(key, value) ==
    /\ version = "provider"
    /\ printer.kind # "none"
    /\ printer' = IF printer.kind = "std"
                  THEN [printer EXCEPT !.fields = stdPrinterWith(@, key, value)]
                  ELSE printer
    /\ ref' = IF printer.kind = "std" THEN RefWith(ref, key, value) ELSE ref
    /\ call' = [NoCall EXCEPT !.op = "With", !.key = key, !.ok = TRUE,
                  !.fields = <<Field(key, value)>>]
    /\ UNCHANGED <<version, mgrVars, output, levelVars, handleVars, out, cowVars, useVars>>

\* What the print methods of stdPrinter hand to the output of the logger.
\* p.logger.output.OutPut(p.ctx, p.logger.name, p.level, msg, p.fields, 0)
\* called from the print method op: what happens in the layers of output.
stdPrinterChain(p, op, msg) ==
    OutPutChain(output, p.ctx, p.name, p.level, msg, p.fields, 0,
                <<"caller", op>>)

\* The writer after the std outputter got the call that came through.
ChainOutPut(w, r) ==
    IF r.under = <<>> THEN w
    ELSE stdOutPutterOutPut(w, levelNames, r.under[1].ctx, r.under[1].msg,
                            r.under[1].fields, r.under[1].callDepth)

stdPrinterOutPutRecheck(p, w, msg) ==
    \* faulty variant: the level is checked again on every print
    IF stdLoggerLevelEnabled(defaultLevelStore, store, p.name, p.level)
    THEN ChainOutPut(w, stdPrinterChain(p, "Print", msg))
    ELSE w

stdPrinterOutPut(p, w, msg) == ChainOutPut(w, stdPrinterChain(p, "Print", msg))

nopPrinterPrint(w) == w

\* The most Output calls the writer receives in the model.
MaxOut == 2

\* A print method of the held printer, msg being the formatted message.
\* The field list of a stdPrinter is the slice the output gets, so what the
\* layers of the output do to it stays in the printer.  For a stdPrinter
\* call.ok: the call returned; call.fields and call.after: p.fields before
\* and after; call.under: the call the std outputter received; call.frames:
\* the stack when the writer was called.
PrintMsg(op, msg) ==
    /\ version = "provider"
    /\ printer.kind # "none"
    /\ printer.kind = "std" => out.n < MaxOut
    /\ out' = IF printer.kind = "std" THEN stdPrinterOutPut(printer, out, msg)
              ELSE nopPrinterPrint(out)
    /\ LET r == stdPrinterChain(printer, op, msg)
       IN IF printer.kind = "std"
          THEN /\ printer' = [printer EXCEPT !.fields = r.after]
               /\ call' = [NoCall EXCEPT !.op = op, !.ok = ~r.panic,
                             !.fields = printer.fields, !.after = r.after,
                             !.under = r.under, !.frames = r.frames]
          ELSE /\ printer' = printer
               /\ call' = [NoCall EXCEPT !.op = op]
    /\ UNCHANGED <<version, mgrVars, output, levelVars, handleVars, ref, cowVars, useVars>>

PrinterPrint(v) == PrintMsg("Print", Sprint(v))
PrinterPrintf(format, v) == PrintMsg("Printf", Sprintf(format, v))
PrinterPrintln(v) == PrintMsg("Println", TruncateLast(Sprintln(v)))

PrintOps == {"Print", "Printf", "Println"}

\* stdOutPutter.OutPut called directly with any field list.
OutPut(ctx, msg, fields, callDepth) ==
    /\ version = "provider"
    /\ out.n < MaxOut
    /\ out' = stdOutPutterOutPut(out, levelNames, ctx, msg, fields, callDepth)
    /\ call' = [NoCall EXCEPT !.op = "OutPut", !.ctx = ctx, !.msg = msg,
                  !.fields = fields, !.lvl = callDepth]
    /\ UNCHANGED <<version, mgrVars, output, levelVars, handleVars, printer, ref, cowVars, useVars>>

\* Value(ctx, v) called on its own.  call.ret: the result; call.invoked: the
\* Valuers invoked, in order, each with the context it received.
CallValue(ctx, v) ==
    /\ LET r == ValueLoop(ctx, v, <<>>)
       IN call' = [NoCall EXCEPT !.op = "Value", !.ctx = ctx, !.value = v,
                     !.ret = r.v, !.invoked = r.invoked]
    /\ UNCHANGED <<version, mgrVars, output, levelVars, handleVars, printVars, cowVars, useVars>>

(***************************************************************************)
(* Manager version.                                                        *)
(***************************************************************************)
\* manager.Level(name, level)
ManagerLevel(name, level) ==
    /\ version = "manager"
    /\ name \in DOMAIN levels \/ Cardinality(DOMAIN levels) < MaxEntries
    /\ levels' = SetMap(levels, name, level)
    /\ call' = [NoCall EXCEPT !.op = "Level", !.name = name, !.level = level]
    /\ UNCHANGED <<version, mgrVars, output, store, defaultLevelStore, levelNames, handleVars, printVars, cowVars, useVars>>

GetOrInsertAlways(m, key, value) ==
    \* faulty variant: the value is stored over a cached one
    [m |-> [k \in DOMAIN m \cup {key} |-> IF k = key THEN value ELSE m[k]],
     actual |-> value]

\* hashmap.GetOrInsert(key, value): one atomic step of the library; the
\* value under key when there is one, else value, which it stores.
GetOrInsert(m, key, value) ==
    IF key \in DOMAIN m THEN [m |-> m, actual |-> m[key]]
    ELSE [m |-> [k \in DOMAIN m \cup {key} |-> IF k = key THEN value ELSE m[k]],
          actual |-> value]

\* manager.Get(name) run alone: the handle holds the name and the manager.
\* call.obj: the logger object returned.
ManagerGet(name) ==
    /\ version = "manager"
    /\ LET r == GetOrInsert(instances, name, NewLoggerObject(name, "main"))
       IN /\ instances' = r.m
          /\ call' = [NoCall EXCEPT !.op = "ManagerGet", !.name = name,
                        !.obj = r.actual]
    /\ logger' = Handle(name)
    /\ vend' = EffectiveLevel(name)
    /\ UNCHANGED <<version, registeredManager, getters, output, levelVars,
                   printVars, cowVars, useVars>>

\* A goroutine enters manager.Get(name) and allocates the logger it passes
\* to GetOrInsert.
CallManagerGet(g, name) ==
    /\ version = "manager"
    /\ getters[g].pc \in {"idle", "done"}
    /\ getters' = [getters EXCEPT ![g] = [name |-> name, ret |-> NoObject,
                                          pc |-> "insert"]]
    /\ UNCHANGED <<version, registeredManager, instances, output, levelVars,
                   handleVars, printVars, call, cowVars, useVars>>

\* m.instances.GetOrInsert(name, &logger{...}) and the return of its result.
InsertInstance(g) ==
    /\ getters[g].pc = "insert"
    /\ LET r == GetOrInsert(instances, getters[g].name,
                            NewLoggerObject(getters[g].name, g))
       IN /\ instances' = r.m
          /\ getters' = [getters EXCEPT ![g].pc = "done", ![g].ret = r.actual]
    /\ UNCHANGED <<version, registeredManager, output, levelVars, handleVars,
                   printVars, call, cowVars, useVars>>

\* The goroutines that call manager.Get at the same time, and the names
\* they ask for.
Getters == {"g1", "g2"}
InstanceNames == {nA, nB}

NextInstances ==
    \/ \E g \in Getters, n \in InstanceNames : CallManagerGet(g, n)
    \/ \E g \in Getters : InsertInstance(g)
    \/ \E n \in InstanceNames : ManagerGet(n)

\* UseManager(mng): mng is the manager of the model or nil.
UseManager(mng) ==
    /\ version = "manager"
    /\ registeredManager' = mng
    /\ call' = [NoCall EXCEPT !.op = "UseManager", !.key = mng]
    /\ UNCHANGED <<version, instances, getters, output, levelVars, handleVars,
                   printVars, cowVars, useVars>>

GetManagerErrNever(mng) ==
    \* faulty variant: no error without a registered manager
    FALSE

\* The err of GetManager(): not nil when no manager is registered.
GetManagerErr(mng) == mng = "nil"

\* GetManager(); call.key: the manager returned; call.ok: err is nil.
GetManager ==
    /\ version = "manager"
    /\ call' = [NoCall EXCEPT !.op = "GetManager",
                  !.key = IF GetManagerErr(registeredManager) THEN "nil"
                          ELSE registeredManager,
                  !.ok = ~GetManagerErr(registeredManager)]
    /\ UNCHANGED <<version, mgrVars, output, levelVars, handleVars, printVars,
                   cowVars, useVars>>

\* The level map of NewManager(stdlog.Default(), RootLevel(DebugLevel)).
TempManager == SetMap(NewManager, Root, DebugLevel)

\* Get(name) of the package, manager version.  Without a registered manager
\* it builds one and returns its mng.Get(""); the caller holds no handle on
\* the registered manager then, and the logger is seen through call alone.
\* call.obj: the logger returned; call.lvl: the level it resolves;
\* call.key: the manager it belongs to.
GetRegistered(name) ==
    /\ version = "manager"
    /\ IF GetManagerErr(registeredManager)
       THEN /\ call' = [NoCall EXCEPT !.op = "GetRegistered", !.name = name,
                          !.key = "temp",
                          !.obj = GetOrInsert(<<>>, Root,
                                              NewLoggerObject(Root, "temp")).actual,
                          !.lvl = loggerLevel(TempManager, Root)]
            /\ UNCHANGED <<instances, handleVars>>
       ELSE /\ LET r == GetOrInsert(instances, name, NewLoggerObject(name, "main"))
               IN /\ instances' = r.m
                  /\ call' = [NoCall EXCEPT !.op = "GetRegistered",
                                !.name = name, !.key = registeredManager,
                                !.obj = r.actual,
                                !.lvl = loggerLevel(levels, name)]
            /\ logger' = Handle(name)
            /\ vend' = EffectiveLevel(name)
    /\ UNCHANGED <<version, registeredManager, getters, output, levelVars,
                   printVars, cowVars, useVars>>

\* logger.LevelEnabled(level) on the held handle.
LevelEnabled(level) ==
    /\ version = "manager"
    /\ logger.held
    /\ call' = [NoCall EXCEPT !.op = "LevelEnabled", !.name = logger.name,
                  !.level = level,
                  !.ok = loggerLevelEnabled(levels, logger.name, level)]
    /\ UNCHANGED <<version, mgrVars, output, levelVars, handleVars, printVars, cowVars, useVars>>

(***************************************************************************)
(* The level state machine of both versions.                               *)
(***************************************************************************)
\* The names the level state machine sets a level for, and its logger names.
LevelNames == {Root, nA, nA_B}
LoggerNames == {Root, nA, nA_B, nAB, nAdB_C}

Next ==
    \/ \E n \in LevelNames, l \in SetLevels : Set(n, l)
    \/ \E n \in LevelNames : UnSet(n)
    \/ UseLevelStore("std")
    \/ NoLevelStore
    \/ \E n \in LoggerNames : NewStdLogger(n)
    \/ \E l \in Levels : levelEnabled(l)
    \/ \E n \in LevelNames, l \in SetLevels : ManagerLevel(n, l)
    \/ \E n \in LoggerNames : ManagerGet(n)
    \/ \E l \in Levels : LevelEnabled(l)

Spec == Init /\ [][Next]_vars

(***************************************************************************)
(* The lookup of the level store on its own: every store of at most        *)
(* MaxEntries entries over StoreNames, asked for every name of Names.      *)
(***************************************************************************)
InitGet == Init /\ version = "provider"

NextGet ==
    \/ \E n \in StoreNames, l \in SetLevels : Set(n, l)
    \/ \E n \in StoreNames : UnSet(n)
    \/ \E n \in Names : Get(n)

SpecGet == InitGet /\ [][NextGet]_vars

\* The options of NewStdLevelStore: LoggerLevel(name, level) as the pair of
\* its arguments, RootLevel(level) being the one with the empty name.
MaxOptions == 2
OptionNames == {Root, nA}
OptionLevels == {DebugLevel, ClosedLevel}
StoreOptions == {<<n, l>> : n \in OptionNames, l \in OptionLevels}

\* NewStdLevelStore(opts...): each option is a Set on the new store, in order.
RECURSIVE ApplyOptions(_, _)
ApplyOptions(m, opts) ==
    IF opts = <<>> THEN m
    ELSE ApplyOptions(SetMap(m, opts[1][1], opts[1][2]), Tail(opts))

RECURSIVE OptionLists(_)
OptionLists(n) ==
    IF n = 0 THEN {<<>>}
    ELSE LET shorter == OptionLists(n - 1)
         IN shorter \cup {Append(q, x) : q \in shorter, x \in StoreOptions}

InitOptions ==
    /\ \E opts \in OptionLists(MaxOptions) :
           InitStore(ApplyOptions(NewStdLevelStore, opts))
    /\ version = "provider"

\* A store built with any options, then set and unset.
NextOptions ==
    \/ \E n \in LevelNames, l \in OptionLevels : Set(n, l)
    \/ \E n \in LevelNames : UnSet(n)

SpecOptions == InitOptions /\ [][NextOptions]_vars

\* NewManager(out, opts...): each option is a Level call on the new manager.
InitManager ==
    /\ \E opts \in OptionLists(MaxOptions) :
           InitMaps(NewStdLevelStore, ApplyOptions(NewManager, opts))
    /\ version = "manager"

\* A manager built with any options, its levels set and its loggers asked.
NextManager ==
    \/ \E n \in LevelNames, l \in SetLevels : ManagerLevel(n, l)
    \/ \E n \in LoggerNames : ManagerGet(n)
    \/ \E l \in Levels : LevelEnabled(l)

SpecManager == InitManager /\ [][NextManager]_vars

\* manager.Get called by goroutines at the same time and by one alone.
InitInstances == Init /\ version = "manager"

SpecInstances == InitInstances /\ [][NextInstances]_vars

\* The registration of the manager and the Get of the package.
NextUseManager ==
    \/ \E mng \in {"mng", "nil"} : UseManager(mng)
    \/ GetManager
    \/ \E n \in LoggerNames : GetRegistered(n)
    \/ \E n \in LoggerNames : ManagerGet(n)

SpecUseManager == InitInstances /\ [][NextUseManager]_vars

(***************************************************************************)
(* Loggers and printers while the levels change.                           *)
(***************************************************************************)
PrinterNames == {nA_B}
PrinterStoreNames == {Root, nA_B}
PrinterSetLevels == {WarnLevel, ClosedLevel}
PrinterLevels == {InfoLevel, ErrorLevel}
PrinterArgs == {<<Num("1"), Num("2")>>}

NextPrinter ==
    \/ \E n \in PrinterStoreNames, l \in PrinterSetLevels : Set(n, l)
    \/ \E n \in PrinterStoreNames : UnSet(n)
    \/ \E n \in PrinterNames : NewStdLogger(n)
    \/ \E l \in PrinterLevels : levelEnabled(l)
    \/ \E l \in PrinterLevels : AtLevel("nil", l)
    \/ With("k", StringValue(<<"v">>))
    \/ \E v \in PrinterArgs : PrinterPrint(v)
    \/ \E v \in PrinterArgs : PrinterPrintf(<<"%v", "!">>, v)
    \/ \E v \in PrinterArgs : PrinterPrintln(v)
    \/ \E n \in PrinterStoreNames, l \in PrinterSetLevels : ManagerLevel(n, l)
    \/ \E n \in PrinterNames : ManagerGet(n)
    \/ \E l \in PrinterLevels : LevelEnabled(l)

SpecPrinter == Init /\ [][NextPrinter]_vars

(***************************************************************************)
(* Loggers while the level store is registered and deregistered.           *)
(***************************************************************************)
NoStoreNames == {Root, nA_B}
NoStoreLevels == {DebugLevel, ClosedLevel}
NoStoreLoggers == {nA_B, nAB}

NextNoStore ==
    \/ \E n \in NoStoreNames, l \in NoStoreLevels : Set(n, l)
    \/ \E n \in NoStoreNames : UnSet(n)
    \/ \E st \in {"std", "nil"} : UseLevelStore(st)
    \/ NoLevelStore
    \/ \E n \in NoStoreLoggers : NewStdLogger(n)
    \/ \E l \in Levels : levelEnabled(l)
    \/ \E l \in Levels : AtLevel("nil", l)

SpecNoStore == InitGet /\ [][NextNoStore]_vars

(***************************************************************************)
(* The field list of a printer under With.                                 *)
(***************************************************************************)
FieldKeys == {"", "level", "logger", "k1", "k2"}
FieldValues == {StringValue(<<"v">>), ValuerValue("plain")}
FieldLevels == {InfoLevel, ErrorLevel}

InitFields == Init /\ version = "provider"

NextFields ==
    \/ \E l \in {WarnLevel} : Set(Root, l)
    \/ UnSet(Root)
    \/ NewStdLogger(nA_B)
    \/ \E l \in FieldLevels : AtLevel("nil", l)
    \/ \E k \in FieldKeys, v \in FieldValues : With(k, v)

SpecFields == InitFields /\ [][NextFields]_vars

(***************************************************************************)
(* stdOutPutter.OutPut called with every field list of at most MaxFields   *)
(* fields.                                                                 *)
(***************************************************************************)
MaxFields == 3

OutFieldSet ==
    {Field("", StringValue(<<"x">>)),
     Field("k1", StringValue(<<"v">>)),
     Field("k2", ValuerValue("nested")),
     Field("level", LevelValue(WarnLevel))}

RECURSIVE SeqsUpTo(_, _)
SeqsUpTo(S, n) ==
    IF n = 0 THEN {<<>>}
    ELSE LET shorter == SeqsUpTo(S, n - 1)
         IN shorter \cup {Append(q, x) : q \in shorter, x \in S}

OutContexts == {"nil", "c1"}
OutMessages == {<<"m">>}
OutDepths == {0, 1}

InitOutPut == Init /\ version = "provider"

NextOutPut ==
    \E ctx \in OutContexts, msg \in OutMessages,
       fields \in SeqsUpTo(OutFieldSet, MaxFields), d \in OutDepths :
        OutPut(ctx, msg, fields, d)

SpecOutPut == InitOutPut /\ [][NextOutPut]_vars

(***************************************************************************)
(* Set and UnSet of stdLevelStore called by several goroutines, one        *)
(* statement at a time.  A map is not written any more once l.store points *)
(* at it, and its address is not given to another map while a goroutine    *)
(* holds it in oldStore; so its position in heap stands for its address.   *)
(* oldStore := l.store is a plain read next to atomic writes: it gives the *)
(* pointer l.store holds or one it held before, but none older than the    *)
(* pointer the goroutine's last failed swap compared with (seen): that     *)
(* swap is an atomic operation and happens before the read.                *)
(***************************************************************************)
StorePointer(cur, old) ==
    \* faulty variant: l.store is assigned, not swapped
    TRUE

CompareAndSwapNever(cur, old) ==
    \* faulty variant: the swap fails whatever the pointer is
    FALSE

\* atomic.CompareAndSwapPointer(addr, old, new) succeeds
CompareAndSwapPointer(cur, old) == cur = old

InstallInPlace(maps, new) ==
    \* faulty variant: the entries are written into the installed map
    [maps EXCEPT ![Len(maps)] = new]

\* The maps a pointer has pointed at, after a swap made it point at new: a
\* map is allocated by the call that installs it and written by no other.
Install(maps, new) == Append(maps, new)

\* A goroutine enters Set(name, level) or UnSet(name).
CallSet(g, name, level) ==
    /\ version = "provider"
    /\ procs[g].pc = "idle"
    /\ procs' = [procs EXCEPT ![g] = [Idle EXCEPT !.pc = "read", !.op = "Set",
                                        !.name = name, !.level = level]]
    /\ UNCHANGED <<version, mgrVars, output, levelVars, handleVars, printVars, call, heap, order, regVars, useVars>>

CallUnSet(g, name) ==
    /\ version = "provider"
    /\ procs[g].pc = "idle"
    /\ procs' = [procs EXCEPT ![g] = [Idle EXCEPT !.pc = "read", !.op = "UnSet",
                                        !.name = name]]
    /\ UNCHANGED <<version, mgrVars, output, levelVars, handleVars, printVars, call, heap, order, regVars, useVars>>

\* store := map[string]Level{}; oldStore := l.store
ReadStore(g) ==
    /\ procs[g].pc = "read"
    /\ \E a \in procs[g].seen..Len(heap) :
           procs' = [procs EXCEPT ![g].pc = "copy", ![g].old = a,
                                  ![g].oldMap = heap[a]]
    /\ UNCHANGED <<version, mgrVars, output, levelVars, handleVars, printVars, call, heap, order, regVars, useVars>>

\* the range loop over *oldStore, and store[name] = level in Set
CopyStore(g) ==
    /\ procs[g].pc = "copy"
    /\ procs' = [procs EXCEPT ![g].pc = "cas",
                    ![g].new = IF procs[g].op = "Set"
                               THEN SetMap(procs[g].oldMap, procs[g].name,
                                           procs[g].level)
                               ELSE UnSetMap(procs[g].oldMap, procs[g].name)]
    /\ UNCHANGED <<version, mgrVars, output, levelVars, handleVars, printVars, call, heap, order, regVars, useVars>>

\* the compare-and-swap: break when it succeeds, the next round when not
SwapStore(g) ==
    /\ procs[g].pc = "cas"
    /\ IF CompareAndSwapPointer(Len(heap), procs[g].old)
       THEN /\ store' = procs[g].new
            /\ heap' = Install(heap, procs[g].new)
            /\ order' = Append(order, [name |-> procs[g].name, level |-> procs[g].level,
                                       op |-> procs[g].op])
            /\ procs' = [procs EXCEPT ![g].pc = "done"]
       ELSE /\ procs' = [procs EXCEPT ![g].pc = "read", ![g].retried = TRUE,
                                     ![g].seen = Len(heap)]
            /\ UNCHANGED <<store, heap, order>>
    /\ UNCHANGED <<version, mgrVars, output, defaultLevelStore, levels, levelNames, handleVars,
                   printVars, call, regVars, useVars>>

CowNames == {nA, nB}
CowLevels == {DebugLevel, ClosedLevel}

InitCow == Init /\ version = "provider"

NextCow ==
    \/ \E g \in Procs, n \in CowNames, l \in CowLevels : CallSet(g, n, l)
    \/ \E g \in Procs, n \in CowNames : CallUnSet(g, n)
    \/ \E g \in Procs : ReadStore(g)
    \/ \E g \in Procs : CopyStore(g)
    \/ \E g \in Procs : SwapStore(g)

SpecCow == InitCow /\ [][NextCow]_vars

(***************************************************************************)
(* The level-name table (level.go).                                        *)
(***************************************************************************)
\* A level without a name in the default table.
L99 == 99

\* RegisterLevelName(level, name) run alone.  call.lvl: the size of the
\* table before the call; call.fresh: it had no entry for level.
RegisterLevelName(l, name) ==
    /\ levelNames' = RegisterNameMap(levelNames, l, name)
    /\ call' = [NoCall EXCEPT !.op = "RegisterLevelName", !.level = l,
                  !.key = name,
                  !.lvl = Cardinality(DOMAIN levelNames),
                  !.fresh = l \notin DOMAIN levelNames]
    /\ UNCHANGED <<version, mgrVars, output, store, defaultLevelStore, levels, handleVars,
                   printVars, cowVars, useVars>>

\* l.String(); call.msg: the string returned.
String(l) ==
    /\ call' = [NoCall EXCEPT !.op = "String", !.level = l,
                  !.msg = LevelString(levelNames, l)]
    /\ UNCHANGED <<version, mgrVars, output, levelVars, handleVars, printVars, cowVars, useVars>>

NameLevels == {allLevel, DebugLevel, InfoLevel, ErrorLevel, L99, ClosedLevel}
LevelNameStrings == {"", "L99", "HELP"}

NextLevelNames ==
    \/ \E l \in NameLevels, n \in LevelNameStrings : RegisterLevelName(l, n)
    \/ \E l \in NameLevels : String(l)

\* level.go is the same in every version.
InitLevelNames == Init /\ version = "provider"

SpecLevelNames == InitLevelNames /\ [][NextLevelNames]_vars

(***************************************************************************)
(* RegisterLevelName called by several goroutines, one step at a time.     *)
(* The position of a table in tables stands for its address.  levelNames   *)
(* is read twice in a round: by the range loop, and again for the old      *)
(* pointer handed to the compare-and-swap.                                 *)
(***************************************************************************)
CallRegisterLevelName(g, l, name) ==
    /\ regs[g].pc = "idle"
    /\ regs' = [regs EXCEPT ![g] = [IdleReg EXCEPT !.pc = "range", !.level = l,
                                      !.name = name]]
    /\ UNCHANGED <<version, mgrVars, output, levelVars, handleVars, printVars, call, procs, heap,
                   order, tables, useVars>>

\* mp := make(...); for l, n := range *levelNames { mp[l] = n }; mp[level] = name
RangeNames(g) ==
    /\ regs[g].pc = "range"
    /\ regs' = [regs EXCEPT ![g].pc = "load", ![g].src = Len(tables),
                   ![g].mp = RegisterNameMap(levelNames, regs[g].level,
                                             regs[g].name)]
    /\ UNCHANGED <<version, mgrVars, output, levelVars, handleVars, printVars, call, procs, heap,
                   order, tables, useVars>>

\* unsafe.Pointer(levelNames), the old pointer of the compare-and-swap
LoadNames(g) ==
    /\ regs[g].pc = "load"
    /\ regs' = [regs EXCEPT ![g].pc = "cas", ![g].old = Len(tables)]
    /\ UNCHANGED <<version, mgrVars, output, levelVars, handleVars, printVars, call, procs, heap,
                   order, tables, useVars>>

\* the compare-and-swap: break when it succeeds, the next round when not
SwapNames(g) ==
    /\ regs[g].pc = "cas"
    /\ IF CompareAndSwapPointer(Len(tables), regs[g].old)
       THEN /\ levelNames' = regs[g].mp
            /\ tables' = Install(tables, regs[g].mp)
            /\ regs' = [regs EXCEPT ![g].pc = "done"]
       ELSE /\ regs' = [regs EXCEPT ![g].pc = "range", ![g].retried = TRUE]
            /\ UNCHANGED <<levelNames, tables>>
    /\ UNCHANGED <<version, mgrVars, output, store, defaultLevelStore, levels, handleVars,
                   printVars, call, procs, heap, order, useVars>>

RegLevels == {DebugLevel, ErrorLevel, L99}
RegNames == {"A", "B"}

NextRegister ==
    \/ \E g \in Procs, l \in RegLevels, n \in RegNames :
           CallRegisterLevelName(g, l, n)
    \/ \E g \in Procs : RangeNames(g)
    \/ \E g \in Procs : LoadNames(g)
    \/ \E g \in Procs : SwapNames(g)

SpecRegister == InitLevelNames /\ [][NextRegister]_vars

(***************************************************************************)
(* The writers of both copy-on-write maps together: each goroutine makes   *)
(* one call, Set or UnSet on the level store or RegisterLevelName on the   *)
(* table of level names, and the calls run one statement at a time.        *)
(***************************************************************************)
WriterName == nA
WriterLevels == {DebugLevel, L99}

\* the statements of the loop of Set and UnSet, of goroutine g
StoreLoop(g) == ReadStore(g) \/ CopyStore(g) \/ SwapStore(g)

\* the statements of the loop of RegisterLevelName, of goroutine g
NamesLoop(g) == RangeNames(g) \/ LoadNames(g) \/ SwapNames(g)

NextWriters ==
    \/ \E g \in Procs : regs[g].pc = "idle" /\ CallSet(g, WriterName, DebugLevel)
    \/ \E g \in Procs : regs[g].pc = "idle" /\ CallUnSet(g, WriterName)
    \/ \E g \in Procs, l \in WriterLevels :
           procs[g].pc = "idle" /\ CallRegisterLevelName(g, l, "A")
    \/ \E g \in Procs : StoreLoop(g)
    \/ \E g \in Procs : NamesLoop(g)

SpecWriters == InitCow /\ [][NextWriters]_vars

\* The scheduler lets every goroutine that can run take its next statement.
FairWriters ==
    /\ SpecWriters
    /\ \A g \in Procs : WF_vars(StoreLoop(g)) /\ WF_vars(NamesLoop(g))

(***************************************************************************)
(* The registry of the LoggerProvider and the free function Get.  part_009 *)
(* keeps the provider in a plain variable, part_008 behind an atomic       *)
(* pointer.  A provider is named by the loggers it makes: "std"            *)
(* (NewStdLoggerProvider), "nop", "custom"; "nil" is the nil func.         *)
(***************************************************************************)
Providers == {"nil", "std", "nop", "custom"}

UseProviderFirstWins(old, provider) ==
    \* faulty variant: a registered provider is kept
    IF old = "nil" THEN provider ELSE old

\* What UseProvider leaves registered.
UseProviderValue(old, provider) == provider

\* provider(name): the logger of the provider; calling the nil func panics.
InvokeProvider(provider) == IF provider = "nil" THEN "panic" ELSE provider

\* Get(name), first the provider of the nil test, second the provider that
\* is called: the same local in part_009, a second Load in part_008.
freeGet(first, second) ==
    IF first = "nil" THEN "default" ELSE InvokeProvider(second)

\* UseProvider(provider) run alone.
UseProvider(provider) ==
    /\ version \in {"provider", "atomic"}
    /\ loggerProvider' = UseProviderValue(loggerProvider, provider)
    /\ lastUse' = [lastUse EXCEPT !.provider = provider]
    /\ call' = [NoCall EXCEPT !.op = "UseProvider", !.key = provider]
    /\ UNCHANGED <<version, mgrVars, output, levelVars, handleVars, printVars, cowVars, users>>

\* Get(name) run alone; call.key: the logger returned.
GetLogger(name) ==
    /\ version \in {"provider", "atomic"}
    /\ call' = [NoCall EXCEPT !.op = "GetLogger", !.name = name,
                  !.key = freeGet(loggerProvider, loggerProvider)]
    /\ UNCHANGED <<version, mgrVars, output, levelVars, handleVars, printVars, cowVars, useVars>>

\* GetLevelStore(); call.key: the store returned.
GetLevelStore ==
    /\ version = "provider"
    /\ call' = [NoCall EXCEPT !.op = "GetLevelStore", !.key = defaultLevelStore]
    /\ UNCHANGED <<version, mgrVars, output, levelVars, handleVars, printVars, cowVars, useVars>>

NextRegistry ==
    \/ \E p \in Providers : UseProvider(p)
    \/ \E n \in Names : GetLogger(n)
    \/ \E st \in {"std", "nil"} : UseLevelStore(st)
    \/ NoLevelStore
    \/ GetLevelStore

SpecRegistry == Init /\ [][NextRegistry]_vars

(***************************************************************************)
(* UseProvider and Get called by several goroutines, one step at a time.   *)
(***************************************************************************)
CallUseProvider(g, provider) ==
    /\ version \in {"provider", "atomic"}
    /\ users[g].pc = "idle"
    /\ users' = [users EXCEPT ![g] = [IdleUser EXCEPT !.pc = "use",
                                        !.op = "UseProvider", !.arg = provider]]
    /\ UNCHANGED <<version, mgrVars, output, levelVars, handleVars, printVars, call, cowVars,
                   loggerProvider, lastUse>>

\* part_009: defaultLoggerProvider = provider
StoreProvider(g) ==
    /\ version = "provider"
    /\ users[g].pc = "use"
    /\ loggerProvider' = UseProviderValue(loggerProvider, users[g].arg)
    /\ lastUse' = [lastUse EXCEPT !.provider = users[g].arg]
    /\ users' = [users EXCEPT ![g].pc = "idle"]
    /\ UNCHANGED <<version, mgrVars, output, levelVars, handleVars, printVars, call, cowVars>>

\* part_008: old := _loggerProvider.Load()
LoadProvider(g) ==
    /\ version = "atomic"
    /\ users[g].pc = "use"
    /\ users' = [users EXCEPT ![g].pc = "cas", ![g].changed = FALSE]
    /\ UNCHANGED <<version, mgrVars, output, levelVars, handleVars, printVars, call, cowVars,
                   loggerProvider, lastUse>>

\* part_008: _loggerProvider.CAS(old, &provider); the next round when it fails
SwapProvider(g) ==
    /\ version = "atomic"
    /\ users[g].pc = "cas"
    /\ IF ~users[g].changed
       THEN /\ loggerProvider' = UseProviderValue(loggerProvider, users[g].arg)
            /\ lastUse' = [lastUse EXCEPT !.provider = users[g].arg]
            /\ users' = [h \in Procs |->
                           IF h = g THEN [users[g] EXCEPT !.pc = "idle"]
                           ELSE IF users[h].pc = "cas"
                                THEN [users[h] EXCEPT !.changed = TRUE]
                                ELSE users[h]]
       ELSE /\ users' = [users EXCEPT ![g].pc = "use"]
            /\ UNCHANGED <<loggerProvider, lastUse>>
    /\ UNCHANGED <<version, mgrVars, output, levelVars, handleVars, printVars, call, cowVars>>

CallGet(g) ==
    /\ version \in {"provider", "atomic"}
    /\ users[g].pc = "idle"
    /\ users' = [users EXCEPT ![g] = [IdleUser EXCEPT !.pc = "get", !.op = "Get"]]
    /\ UNCHANGED <<version, mgrVars, output, levelVars, handleVars, printVars, call, cowVars,
                   loggerProvider, lastUse>>

\* provider := the registered provider; the default logger when it is nil
GetLoad(g) ==
    /\ users[g].pc = "get"
    /\ users' = [users EXCEPT
                   ![g].p = loggerProvider,
                   ![g].pc = IF loggerProvider = "nil" THEN "idle" ELSE "invoke",
                   ![g].ret = IF loggerProvider = "nil"
                              THEN freeGet(loggerProvider, loggerProvider)
                              ELSE "none"]
    /\ UNCHANGED <<version, mgrVars, output, levelVars, handleVars, printVars, call, cowVars,
                   loggerProvider, lastUse>>

\* return provider(name) in part_009; in part_008 the provider is loaded
\* again for the call
GetInvoke(g) ==
    /\ users[g].pc = "invoke"
    /\ users' = [users EXCEPT
                   ![g].pc = "idle",
                   ![g].ret = freeGet(users[g].p,
                                      IF version = "atomic" THEN loggerProvider
                                      ELSE users[g].p)]
    /\ UNCHANGED <<version, mgrVars, output, levelVars, handleVars, printVars, call, cowVars,
                   loggerProvider, lastUse>>

UseProviders == {"nil", "std", "nop"}

NextProvider ==
    \/ \E g \in Procs, p \in UseProviders : CallUseProvider(g, p)
    \/ \E g \in Procs : StoreProvider(g)
    \/ \E g \in Procs : LoadProvider(g)
    \/ \E g \in Procs : SwapProvider(g)
    \/ \E g \in Procs : CallGet(g)
    \/ \E g \in Procs : GetLoad(g)
    \/ \E g \in Procs : GetInvoke(g)

SpecProvider == Init /\ [][NextProvider]_vars

\* o.OutPut(ctx, name, level, msg, fields, callDepth) on a filter over the
\* std outputter.  call.ok: the call returned; call.under: what the
\* underlying output received; call.after: the slice of the caller afterwards.
FilterOutPut(o, ctx, name, level, msg, fields, callDepth) ==
    /\ version = "provider"
    /\ out.n < MaxOut
    /\ LET r == OutPutFilterOutPut(o, ctx, name, level, msg, fields, callDepth)
       IN /\ out' = IF r.under = <<>> THEN out
                    ELSE stdOutPutterOutPut(out, levelNames, r.under[1].ctx,
                             r.under[1].msg, r.under[1].fields,
                             r.under[1].callDepth)
          /\ call' = [NoCall EXCEPT !.op = "FilterOutPut", !.filter = o,
                        !.ctx = ctx, !.name = name, !.level = level,
                        !.msg = msg, !.fields = fields, !.lvl = callDepth,
                        !.ok = ~r.panic, !.under = r.under, !.after = r.after]
    /\ UNCHANGED <<version, mgrVars, output, levelVars, handleVars, printer, ref, cowVars, useVars>>

Filters ==
    {NoFilter, FilterRemoveField("passwd"),
     FilterCoverField("passwd", StringValue(<<"***">>))}

FilterFieldSet ==
    {Field("username", StringValue(<<"mike">>)),
     Field("passwd", StringValue(<<"dwssap">>)),
     Field("", StringValue(<<"x">>))}

\* The logger names and levels the filtered output is called with.
FilterTargets == {<<nA, ErrorLevel>>, <<nB, ErrorLevel>>, <<nB, InfoLevel>>}

\* The calls of the model: the enable filter on every target, the other
\* filters, which look at no name and no level, on one.
NextFilter ==
    \E fields \in SeqsUpTo(FilterFieldSet, MaxFields) :
        \/ \E t \in FilterTargets :
              FilterOutPut(FilterEnable("warnUp"), "c1", t[1], t[2], <<"m">>,
                           fields, 0)
        \/ \E o \in Filters :
              FilterOutPut(o, "c1", nB, ErrorLevel, <<"m">>, fields, 0)

SpecFilter == InitOutPut /\ [][NextFilter]_vars

(***************************************************************************)
(* Printers of a logger whose output is layers of filters around the std   *)
(* outputter.                                                              *)
(***************************************************************************)
MaxLayers == 2
ChainLayers ==
    {FilterRemoveField("passwd"),
     FilterCoverField("passwd", StringValue(<<"***">>)),
     FilterEnable("warnUp")}

\* The most fields a printer of the model holds.
MaxChainFields == 5

InitChain ==
    /\ \E o \in SeqsUpTo(ChainLayers, MaxLayers) :
           InitAll(NewStdLevelStore, NewManager, o)
    /\ version = "provider"

NextChain ==
    \/ NewStdLogger(nB)
    \/ AtLevel("nil", ErrorLevel)
    \/ \E k \in {"passwd", "username"} :
          Len(printer.fields) < MaxChainFields
              /\ With(k, StringValue(<<"dwssap">>))
    \/ PrinterPrint(<<Str("m")>>)
    \/ PrinterPrintf(<<"%v">>, <<Str("m")>>)
    \/ PrinterPrintln(<<Str("m")>>)

SpecChain == InitChain /\ [][NextChain]_vars

ValueContexts == {"nil", "c1", "c2"}

ValueInputs ==
    {NilValue, StringValue(<<"abc">>), StringValue(<<"1">>),
     LevelValue(InfoLevel), LevelValue(ErrorLevel)}
    \cup {ValuerValue(f) : f \in {"fromCtx", "nested", "nested3", "nilValuer"}}

\* Value called on its own and by the std outputter on the value of a field.
NextValue ==
    \E ctx \in ValueContexts, v \in ValueInputs :
        \/ CallValue(ctx, v)
        \/ OutPut(ctx, <<"m">>, <<Field("k", v)>>, 0)

SpecValue == InitOutPut /\ [][NextValue]_vars

(***************************************************************************)
(* Properties.  The reference definitions below restate what a property    *)
(* asks for without going through the operators they are compared with.    *)
(***************************************************************************)
\* Enabled as the comparison of two signed 8-bit integers.
EnabledFor(E, L) == E # ClosedLevel /\ E <= L

\* The ancestors of name, name included: its prefixes that end where a
\* segment ends.
Ancestors(name) ==
    {SubSeq(name, 1, k) : k \in {j \in 1..Len(name) :
                                    j = Len(name) \/ IsSeparator(name[j + 1])}}

\* The longest of a non-empty set of names that are prefixes of one name.
Longest(S) == CHOOSE a \in S : \A b \in S : Len(b) <= Len(a)

\* The level of the nearest entry of m among cands, of root when there is
\* none, of a map without a root entry the zero Level.
NearestLevel(m, cands) ==
    LET present == cands \cap DOMAIN m
    IN IF present # {} THEN m[Longest(present)]
       ELSE IF Root \in DOMAIN m THEN m[Root] ELSE InfoLevel

\* The level a logger of that name resolves from the current state.
RefEffective(name) ==
    IF version = "manager" THEN NearestLevel(levels, Ancestors(name))
    ELSE IF defaultLevelStore = "nil" THEN InfoLevel
    ELSE NearestLevel(store, Ancestors(name))

\* C1: a logger is enabled for a level L iff its effective level E is not
\* ClosedLevel and E <= L as signed integers, for stdLogger.levelEnabled and
\* for logger.LevelEnabled of the manager version alike.
C1_EnabledIffNotClosedAndLE ==
    call.op \in {"levelEnabled", "LevelEnabled"} =>
        /\ EffectiveLevel(call.name) \in -128..127
        /\ call.level \in -128..127
        /\ call.ok <=> EnabledFor(EffectiveLevel(call.name), call.level)

\* C1 witness: a closed logger asked for ClosedLevel itself is not enabled,
\* although ClosedLevel <= ClosedLevel.
C1_Witness ==
    /\ call.op = "levelEnabled"
    /\ EffectiveLevel(call.name) = ClosedLevel
    /\ call.level = ClosedLevel
    /\ ~call.ok

\* C2: stdLevelStore.Get(name) returns the level of the first entry that
\* exists among name, name without its last segment, ..., its first segment,
\* and the level of the root entry when none of them exists; a longer
\* ancestor takes precedence over a shorter one and over root.
C2_GetNearestAncestor ==
    call.op = "Get" =>
        LET present == Ancestors(call.name) \cap DOMAIN store
        IN /\ present # {} => call.lvl = store[Longest(present)]
           /\ (present = {} /\ Root \in DOMAIN store) => call.lvl = store[Root]

\* C2 witness: a lookup of a/b/c in a store that holds a, a/b and root at
\* three different levels answers the level of a/b.
C2_Witness ==
    /\ call.op = "Get"
    /\ call.name = nA_B_C
    /\ {Root, nA, nA_B} \subseteq DOMAIN store
    /\ nA_B_C \notin DOMAIN store
    /\ store[nA] # store[nA_B]
    /\ store[Root] # store[nA_B]
    /\ call.lvl = store[nA_B]

\* C3: stdLogger.AtLevel never returns nil; when the level is not enabled
\* it returns a printer on which no Print, Printf, Println or With, in any
\* order, hands anything to the output, With returning that same printer.
C3_DisabledPrinterEmitsNothing ==
    [][/\ call'.op = "AtLevel" =>
            /\ printer'.kind \in {"std", "nop"}
            /\ ~EnabledFor(RefEffective(logger.name), call'.level)
                   => printer'.kind = "nop"
       /\ (printer.kind = "nop" /\ call'.op \in PrintOps \cup {"With"}) =>
            /\ out' = out
            /\ printer' = printer]_vars

\* C3 witness: a print on the printer of a level that was not enabled, the
\* writer having received nothing.
C3_Witness ==
    /\ call.op \in PrintOps
    /\ printer.kind = "nop"
    /\ logger.held
    /\ out.n = 0

\* C4: a Logger handle holds no cached level: levelEnabled, AtLevel and
\* LevelEnabled on a handle obtained earlier decide from the effective level
\* the store or manager gives at the call, whatever Set, UnSet and
\* Manager.Level calls completed since the handle was obtained.
C4_NoCachedLevel ==
    /\ call.op \in {"levelEnabled", "LevelEnabled"} =>
           (call.ok <=> EnabledFor(RefEffective(logger.name), call.level))
    /\ call.op = "AtLevel" =>
           (printer.kind = "std"
                <=> EnabledFor(RefEffective(logger.name), call.level))

\* C4 witness: AtLevel on a handle whose level was enabled when the handle
\* was obtained and is not any more returns the disabled printer.
C4_Witness ==
    /\ call.op = "AtLevel"
    /\ EnabledFor(vend, call.level)
    /\ ~EnabledFor(RefEffective(logger.name), call.level)
    /\ printer.kind = "nop"

\* C5: a stdPrinter that AtLevel returned enabled hands exactly one line to
\* the output on every Print, Printf and Println, whatever the level store
\* holds for the name of its logger by then.
C5_EnabledPrinterStaysEnabled ==
    [][(printer.kind = "std" /\ call'.op \in PrintOps) =>
            /\ out'.n = out.n + 1
            /\ printer' = printer]_vars

\* C5 witness: a print of an enabled printer reached the writer while the
\* level of the printer is not enabled for its logger any more.
C5_Witness ==
    /\ call.op \in PrintOps
    /\ printer.kind = "std"
    /\ defaultLevelStore = "std"
    /\ ~EnabledFor(RefEffective(printer.name), printer.level)
    /\ out.n >= 1

\* C6: with the store registered, after Set(n, ClosedLevel) a logger named n
\* gets the disabled printer at every level; after a following UnSet(n) it is
\* enabled for a level exactly as its nearest remaining proper ancestor
\* entry, or root, says, which is the level n resolved to before the Set
\* when n had no entry of its own.
C6_ClosedThenUnSetInherits ==
    defaultLevelStore = "std" =>
        /\ (call.op = "Set" /\ call.level = ClosedLevel) =>
               \A L \in Levels :
                   stdLoggerAtLevel(defaultLevelStore, store, call.name,
                                    "nil", L).kind = "nop"
        /\ (call.op = "UnSet" /\ call.ok) =>
               \A L \in Levels :
                   LET on == stdLoggerAtLevel(defaultLevelStore, store,
                                 call.name, "nil", L).kind = "std"
                   IN /\ on <=> EnabledFor(NearestLevel(store,
                                    Ancestors(call.name) \ {call.name}), L)
                      /\ call.fresh => (on <=> EnabledFor(call.lvl, L))

\* C6 witness: a/b, closed and then unset, falls back to the entry of a,
\* which differs from root.
C6_Witness ==
    /\ call.op = "UnSet"
    /\ call.ok
    /\ call.fresh
    /\ call.name = nA_B
    /\ defaultLevelStore = "std"
    /\ nA \in DOMAIN store
    /\ Root \in DOMAIN store
    /\ store[nA] = DebugLevel
    /\ store[Root] = WarnLevel

\* The field list of an ordered map.
RefFields(r) == [i \in 1..Len(r.order) |-> Field(r.order[i], r.val[r.order[i]])]

\* C7: after any sequence of With calls the field list of a printer is the
\* reference ordered map of those calls: distinct keys, each with the value
\* of the last With for it, in the order of first insertion; a With with an
\* empty key leaves the list as it is; every With returns its receiver.
C7_WithIsOrderedMap ==
    [][/\ printer'.kind = "std" =>
            /\ printer'.fields = RefFields(ref')
            /\ \A i, j \in 1..Len(printer'.fields) :
                   printer'.fields[i].Key = printer'.fields[j].Key => i = j
       /\ call'.op = "With" =>
            /\ call'.ok
            /\ call'.key = "" => printer' = printer
            /\ (call'.key # "" /\ printer.kind = "std") =>
                   \E i \in 1..Len(printer'.fields) :
                       printer'.fields[i] = call'.fields[1]]_vars

\* C7 witness: With("k2", ...) on a list that holds k2 before k1 leaves k2
\* where it is, with the new value, and k1 with another value.
C7_Witness ==
    /\ call.op = "With"
    /\ call.key = "k2"
    /\ printer.kind = "std"
    /\ Len(printer.fields) = 4
    /\ printer.fields[3] = Field("k2", ValuerValue("plain"))
    /\ printer.fields[4] = Field("k1", StringValue(<<"v">>))

\* C8: an enabled printer of AtLevel(ctx, L) on the logger n starts with the
\* fields (level, L), (logger, n) and no other; after any With calls the
\* first two keys still are level and logger, a With of one of these keys
\* changing the value of that field and nothing else.
C8_BuiltinFieldsStayFirst ==
    [][/\ (call'.op = "AtLevel" /\ printer'.kind = "std") =>
            printer'.fields = <<Field("level", LevelValue(call'.level)),
                                Field("logger", StringValue(logger.name))>>
       /\ printer'.kind = "std" =>
            /\ Len(printer'.fields) >= 2
            /\ printer'.fields[1].Key = "level"
            /\ printer'.fields[2].Key = "logger"
       /\ (call'.op = "With" /\ printer.kind = "std"
             /\ call'.key \in {"level", "logger"}) =>
            /\ Len(printer'.fields) = Len(printer.fields)
            /\ \A i \in 1..Len(printer.fields) :
                   printer'.fields[i] =
                       IF printer.fields[i].Key = call'.key
                       THEN call'.fields[1] ELSE printer.fields[i]]_vars

\* C8 witness: With("level", ...) on a printer of three fields replaced the
\* value of the first field.
C8_Witness ==
    /\ call.op = "With"
    /\ call.key = "level"
    /\ printer.kind = "std"
    /\ Len(printer.fields) = 3
    /\ printer.fields[1] = Field("level", StringValue(<<"v">>))
    /\ printer.fields[2] = Field("logger", StringValue(nA_B))
    /\ printer.fields[3].Key = "k1"

\* The text of a field value once resolved against ctx.
RefText(names, ctx, v) ==
    CASE v.kind = "string" -> v.s
      [] v.kind = "level" -> IF v.lvl \in DOMAIN names THEN <<names[v.lvl]>>
                             ELSE <<"Level(", ToString(v.lvl), ")">>
      [] v.kind = "valuer" -> <<"@", ctx>>

\* The pieces of positions 1..n of the fields kept, then the whole line.
RECURSIVE RefPieces(_, _, _, _)
RefPieces(names, ctx, kept, n) ==
    IF n = 0 THEN <<>>
    ELSE RefPieces(names, ctx, kept, n - 1)
             \o <<kept[n].Key, "=">> \o RefText(names, ctx, kept[n].Value) \o <<" ">>

RefLine(names, ctx, fields, msg) ==
    LET kept == SelectSeq(fields, LAMBDA f : f.Key # "")
    IN RefPieces(names, ctx, kept, Len(kept)) \o msg

\* C9: each stdOutPutter.OutPut call hands exactly one line to the writer:
\* for every field with a non-empty key, in list order, key=value and a
\* space, the value resolved through Value against ctx, then the message;
\* fields with an empty key contribute nothing.
C9_OutPutOneLine ==
    [][call'.op = "OutPut" =>
            /\ out'.n = out.n + 1
            /\ out'.line = RefLine(levelNames, call'.ctx, call'.fields,
                                   call'.msg)]_vars

\* C9 witness: a Valuer that returns a Valuer, a field with an empty key
\* and a string field, in this order, give k2=@c1 k1=v m.
C9_Witness ==
    /\ call.op = "OutPut"
    /\ call.ctx = "c1"
    /\ call.fields = <<Field("k2", ValuerValue("nested")),
                       Field("", StringValue(<<"x">>)),
                       Field("k1", StringValue(<<"v">>))>>
    /\ out.n = 2
    /\ out.line = <<"k2", "=", "@", "c1", " ", "k1", "=", "v", " ", "m">>

\* The positions of the calls on name n in a sequence of calls.
CallsOn(calls, n) == {i \in 1..Len(calls) : calls[i].name = n}

\* The store after the calls of a sequence, one at a time: a name is there
\* when the last call on it is a Set, with the level of that Set; root, on
\* which there is no call, keeps its level.
SequentialStore(calls) ==
    LET last(n) == calls[Max(CallsOn(calls, n))]
        there == {n \in CowNames : CallsOn(calls, n) # {}
                                   /\ last(n).op = "Set"}
    IN [n \in there \cup {Root} |->
            IF n = Root THEN InfoLevel ELSE last(n).level]

\* C10: whatever the interleaving of concurrent Set and UnSet calls, the
\* store is the one the calls give one at a time in the order of their
\* successful swap, each call swapping once: no write to another name is
\* lost, and of the writes to one name the last swapped stays.
C10_StoreIsSequentialInSwapOrder ==
    /\ store = SequentialStore(order)
    /\ store = heap[Len(heap)]
    /\ Len(heap) = Len(order) + 1
    /\ Len(order) = Cardinality({g \in Procs : procs[g].pc = "done"})
    /\ \A g \in Procs : procs[g].pc = "done" =>
           \E i \in 1..Len(order) :
               order[i] = [name |-> procs[g].name, level |-> procs[g].level,
                           op |-> procs[g].op]

\* C10 witness: three calls are over, two of them after a failed swap; the
\* Set of b is kept next to the later of the two Sets of a.
C10_Witness ==
    /\ \A g \in Procs : procs[g].pc = "done"
    /\ Cardinality({g \in Procs : procs[g].retried}) = 2
    /\ order = <<[name |-> nA, level |-> ClosedLevel, op |-> "Set"],
                 [name |-> nB, level |-> DebugLevel, op |-> "Set"],
                 [name |-> nA, level |-> DebugLevel, op |-> "Set"]>>
    /\ store = [n \in {Root, nA, nB} |->
                   IF n = Root THEN InfoLevel ELSE DebugLevel]

\* C11: when RegisterLevelName calls for different levels run concurrently
\* and all have returned, the table holds every registered name: no
\* registration is lost.
C11_NoRegistrationLost ==
    (/\ \A g \in Procs : regs[g].pc = "done"
     /\ \A g, h \in Procs : g # h => regs[g].level # regs[h].level)
        => \A g \in Procs :
               /\ regs[g].level \in DOMAIN levelNames
               /\ levelNames[regs[g].level] = regs[g].name

\* C11, the reason given: a swap that succeeds installs a copy of the table
\* that is current at the moment of the swap.
C11_SwapInstallsCopyOfCurrent ==
    [][\A g \in Procs :
          (regs[g].pc = "cas" /\ regs'[g].pc = "done")
              => regs[g].src = Len(tables)]_vars

\* C11 witness: all three calls have returned, none after a failed swap,
\* and the table lacks the name of the call that swapped first.
C11_Witness ==
    /\ \A g \in Procs : regs[g].pc = "done" /\ ~regs[g].retried
    /\ \A g, h \in Procs : g # h => regs[g].level # regs[h].level
    /\ Len(tables) = 4
    /\ \E g \in Procs :
          /\ regs[g].level \in DOMAIN tables[2]
          /\ regs[g].level \notin DOMAIN levelNames

\* The generic form of a level without a name: Level(<numeric value>).
GenericLevelString(l) == <<"Level(", ToString(l), ")">>

\* C18: after RegisterLevelName(l, s) with a non-empty s, l.String() is s,
\* whatever name l had, and the strings of all other levels are as before;
\* after RegisterLevelName(l, "") l.String() is Level(<numeric value of l>).
C18_RegisterThenString ==
    [][call'.op = "RegisterLevelName" =>
          /\ call'.key # "" =>
                 LevelString(levelNames', call'.level) = <<call'.key>>
          /\ call'.key = "" =>
                 LevelString(levelNames', call'.level)
                     = GenericLevelString(call'.level)
          /\ \A l \in NameLevels \cup DOMAIN levelNames :
                 l # call'.level =>
                     LevelString(levelNames', l) = LevelString(levelNames, l)]_vars

\* C18 witness: DEBUG was deregistered, giving Level(-1), in a table where
\* level 99 has been named HELP and ERROR has kept its name.
C18_Witness ==
    /\ call.op = "RegisterLevelName"
    /\ call.level = DebugLevel
    /\ call.key = ""
    /\ LevelString(levelNames, DebugLevel) = <<"Level(", "-1", ")">>
    /\ LevelString(levelNames, L99) = <<"HELP">>
    /\ LevelString(levelNames, ErrorLevel) = <<"ERROR">>

\* C12: after package initialisation, for any interleaving of UseProvider
\* calls (nil included) with calls of the free function Get, Get never
\* calls a nil provider and returns a logger: the one of the registered
\* provider, or the default std logger when none is registered.
C12_GetNeverCallsNilProvider ==
    \A g \in Procs :
        users[g].op = "Get" =>
            users[g].ret \in {"none", "default"} \cup (Providers \ {"nil"})

\* C12 witness: a Get has called the nil func: the provider it loaded first
\* was not nil and nil is registered by now.
C12_Witness ==
    \E g \in Procs :
        /\ users[g].op = "Get"
        /\ users[g].ret = "panic"
        /\ users[g].p = "std"
        /\ loggerProvider = "nil"

\* C13: one provider and one level store are registered at a time and the
\* last call wins: after any sequence of completed UseProvider, UseLevelStore
\* and NoLevelStore calls, Get and GetLevelStore use the argument of the
\* most recent call, nil meaning none registered.
C13_LastRegistrationWins ==
    /\ call.op = "GetLogger" =>
           call.key = IF lastUse.provider = "nil" THEN "default"
                      ELSE lastUse.provider
    /\ call.op = "GetLevelStore" => call.key = lastUse.store
    /\ call.op = "UseProvider" => loggerProvider = call.key
    /\ call.op = "UseLevelStore" => defaultLevelStore = call.key
    /\ call.op = "NoLevelStore" => defaultLevelStore = "nil"

\* C13 witness: Get uses the nop provider, registered after the std
\* provider of the package initialisation, the level store being cleared.
C13_Witness ==
    /\ call.op = "GetLogger"
    /\ call.key = "nop"
    /\ lastUse = [store |-> "nil", provider |-> "nop"]
    /\ version = "provider"

\* C14: through FilterEnable(o, f), for an OutPut call with any field list,
\* empty or not: when f(ctx, name, level) is false the underlying output is
\* never invoked, when it is true the underlying output is invoked exactly
\* once with the same message and the same fields, and the call does not
\* fail in either case.
C14_FilterEnablePassesOrDrops ==
    (/\ call.op = "FilterOutPut"
     /\ call.filter.underlying = "std"
     /\ call.filter.enableFunc # "nil"
     /\ call.filter.fieldModifyFunc = "nil")
    => /\ call.ok
       /\ IF enableFuncCall(call.filter.enableFunc, call.ctx, call.name, call.level)
          THEN /\ Len(call.under) = 1
               /\ call.under[1].msg = call.msg
               /\ call.under[1].fields = call.fields
          ELSE call.under = <<>>

\* C14 witness: an OutPut call through FilterEnable whose enable func
\* accepts the call and whose field list is not empty.
C14_Witness ==
    /\ call.op = "FilterOutPut"
    /\ call.filter = FilterEnable("warnUp")
    /\ enableFuncCall("warnUp", call.ctx, call.name, call.level)
    /\ Len(call.fields) = 2
    /\ ~call.ok

\* C15: through FilterCoverField(o, k, r) the underlying output receives as
\* many fields as the caller passed, with the same keys in the same order;
\* the value of every field whose key is k is r and every other value is
\* unchanged, as are the message, the logger name and the level.
C15_CoverKeepsKeysReplacesValue ==
    (call.op = "FilterOutPut" /\ call.filter.fieldModifyFunc = "cover")
    => /\ call.ok
       /\ Len(call.under) = 1
       /\ call.under[1].msg = call.msg
       /\ call.under[1].name = call.name
       /\ call.under[1].level = call.level
       /\ Len(call.under[1].fields) = Len(call.fields)
       /\ \A i \in 1..Len(call.fields) :
             /\ call.under[1].fields[i].Key = call.fields[i].Key
             /\ call.under[1].fields[i].Value =
                    IF call.fields[i].Key = call.filter.name
                    THEN call.filter.replace
                    ELSE call.fields[i].Value

\* C15 witness: a call through FilterCoverField("passwd", "***") with a
\* username field before a passwd field; the underlying output got the
\* passwd covered and the username as passed.
C15_Witness ==
    /\ call.op = "FilterOutPut"
    /\ call.filter.fieldModifyFunc = "cover"
    /\ Len(call.fields) = 2
    /\ call.fields[1].Key = "username"
    /\ call.fields[2].Key = "passwd"
    /\ Len(call.under) = 1
    /\ call.under[1].fields[1].Value = StringValue(<<"mike">>)
    /\ call.under[1].fields[2].Value = StringValue(<<"***">>)

\* C16: through FilterRemoveField(o, k) over the std outputter the emitted
\* line holds no field with key k and holds every other field with a
\* non-empty key, with its original value and in the original order,
\* followed by the unchanged message.
C16_RemoveDropsKeyFromLine ==
    [][(call'.op = "FilterOutPut" /\ call'.filter.fieldModifyFunc = "remove")
        => /\ call'.ok
           /\ out'.n = out.n + 1
           /\ out'.line =
                RefLine(levelNames, call'.ctx,
                        SelectSeq(call'.fields,
                                  LAMBDA f : f.Key # call'.filter.name),
                        call'.msg)]_vars

\* C16 witness: a call through FilterRemoveField("passwd") with the fields
\* username, passwd and one with the empty key; the line holds the
\* username alone before the message.
C16_Witness ==
    /\ call.op = "FilterOutPut"
    /\ call.filter.fieldModifyFunc = "remove"
    /\ Len(call.fields) = 3
    /\ {call.fields[i].Key : i \in 1..3} = {"username", "passwd", ""}
    /\ out.n > 0
    /\ out.line = <<"username", "=", "mike", " ", "m">>

\* C17: for a value that is a chain of n >= 0 nested Valuers ending in a
\* non-Valuer x, Value(ctx, v) invokes each Valuer of the chain exactly once,
\* from the outermost to the innermost and each with ctx, and returns x; the
\* result is never a Valuer, and a non-Valuer input, nil included, is
\* returned unchanged without any invocation.
C17_ValueResolvesChain ==
    call.op = "Value" =>
        LET n == Len(call.invoked)
            \* what the i-th invoked Valuer returns for the context of the call
            Result(i) == ValuerCall(call.invoked[i].f, call.ctx)
        IN /\ call.ret.kind # "valuer"
           /\ call.value.kind # "valuer" => n = 0 /\ call.ret = call.value
           /\ call.value.kind = "valuer" =>
                /\ n >= 1
                /\ call.value = ValuerValue(call.invoked[1].f)
                /\ Result(n) = call.ret
           /\ \A i \in 1..n : call.invoked[i].ctx = call.ctx
           /\ \A i \in 1..(n - 1) : Result(i) = ValuerValue(call.invoked[i + 1].f)
           /\ \A i, j \in 1..n : call.invoked[i].f = call.invoked[j].f => i = j

\* C17 witness: Value on a chain of three Valuers has invoked the three, the
\* outermost first, and returned what the innermost reads from the context.
C17_Witness ==
    /\ call.op = "Value"
    /\ call.value = ValuerValue("nested3")
    /\ call.ctx = "c1"
    /\ [i \in 1..Len(call.invoked) |-> call.invoked[i].f]
           = <<"nested3", "nested", "fromCtx">>
    /\ call.ret = StringValue(<<"@", "c1">>)

\* C19 as stated: in every state reachable from NewStdLevelStore through Set
\* and UnSet calls with any names, the empty name included, the store holds
\* an entry for the root name.
C19_StoreAlwaysHasRoot ==
    Root \in DOMAIN store

\* C19 amended: the store of NewStdLevelStore holds a root entry; Set("", l)
\* puts one, UnSet("") removes it, and a Set or UnSet of any other name
\* leaves it as it was.  So the root entry is missing exactly when an
\* UnSet("") has not been followed by a Set("", l).
C19_RootEntryUntilUnSetRoot ==
    /\ Root \in DOMAIN store
    /\ [][/\ (call'.op = "Set" /\ call'.name = Root) => Root \in DOMAIN store'
          /\ (call'.op = "UnSet" /\ call'.name = Root) => Root \notin DOMAIN store'
          /\ (call'.op \in {"Set", "UnSet"} /\ call'.name # Root)
                => (Root \in DOMAIN store' <=> Root \in DOMAIN store)]_vars

\* C19 witness: after Set calls for two other names and the UnSet of one of
\* them, the root entry of the new store is still there beside the other.
C19_Witness ==
    /\ call.op = "UnSet"
    /\ call.name = nA
    /\ DOMAIN store = {Root, nA_B}
    /\ store[Root] = InfoLevel

\* C20: when the store has no root entry and no ancestor of the name (the
\* name included) has an entry, stdLevelStore.Get(name) returns normally and
\* its result is InfoLevel.
C20_GetWithoutRootIsInfo ==
    (/\ call.op = "Get"
     /\ Root \notin DOMAIN store
     /\ Ancestors(call.name) \cap DOMAIN store = {})
    => call.lvl = InfoLevel

\* C20 witness: a lookup of a/b in a store whose only entries are for a/b/c
\* and a., none for root, has answered InfoLevel.
C20_Witness ==
    /\ call.op = "Get"
    /\ call.name = nA_B
    /\ DOMAIN store = {nA_B_C, nA_}
    /\ \A n \in DOMAIN store : store[n] # InfoLevel
    /\ call.lvl = InfoLevel

\* C25: after RegisterLevelName(level, "") the level-name table holds no
\* entry for the level: a table that held a name for it has one entry
\* fewer, and a table that held none has the size it had.
C25_EmptyNameRemovesEntry ==
    (call.op = "RegisterLevelName" /\ call.key = "")
    => /\ call.level \notin DOMAIN levelNames
       /\ Cardinality(DOMAIN levelNames)
              = IF call.fresh THEN call.lvl ELSE call.lvl - 1

\* C25 witness: RegisterLevelName(DebugLevel, "") on the default table; the
\* table has its four entries still, the one of DebugLevel with the empty
\* name.
C25_Witness ==
    /\ call.op = "RegisterLevelName"
    /\ call.key = ""
    /\ call.level = DebugLevel
    /\ ~call.fresh
    /\ DOMAIN levelNames = DOMAIN DefaultLevelNames
    /\ levelNames[DebugLevel] = ""

\* C26: while no LevelStore is registered (after NoLevelStore or
\* UseLevelStore(nil)) a stdLogger of any name has the effective level
\* InfoLevel: AtLevel(ctx, L) returns an enabled printer if and only if
\* L >= InfoLevel, and the call returns a printer in every case.
C26_NoStoreMeansInfo ==
    defaultLevelStore = "nil" =>
        /\ call.op = "AtLevel" =>
               printer.kind = IF call.level >= InfoLevel THEN "std" ELSE "nop"
        /\ call.op = "levelEnabled" => (call.ok <=> call.level >= InfoLevel)

\* C26 witness: no store is registered, the store that was holds
\* ClosedLevel for a/b and DebugLevel for root, and AtLevel on the logger
\* a/b has returned an enabled printer for WarnLevel.
C26_Witness ==
    /\ defaultLevelStore = "nil"
    /\ call.op = "AtLevel"
    /\ call.name = nA_B
    /\ call.level = WarnLevel
    /\ nA_B \in DOMAIN store /\ store[nA_B] = ClosedLevel
    /\ Root \in DOMAIN store /\ store[Root] = DebugLevel
    /\ printer.kind = "std"

\* C30: for a manager built by NewManager with any options, after any
\* sequence of Manager.Level(name, level) calls the level map holds an entry
\* for the root name, so logger.level finds a Level for every logger name:
\* its root fallback never fails.
C30_ManagerKeepsRoot ==
    version = "manager" =>
        /\ Root \in DOMAIN levels
        /\ \A n \in Names : loggerLevel(levels, n) \in Levels

\* C30 witness: the manager holds levels for root, a and a/b, root set by
\* a Level call, and LevelEnabled on the logger ab, which none of the other
\* entries covers, has answered by the level of root.
C30_Witness ==
    /\ version = "manager"
    /\ call.op = "LevelEnabled"
    /\ call.name = nAB
    /\ call.level = InfoLevel
    /\ DOMAIN levels = {Root, nA, nA_B}
    /\ levels[Root] = DebugLevel
    /\ levels[nA] = ClosedLevel
    /\ call.ok

\* C21: for one manager and one name, every Manager.Get(name) call, run
\* alone or at the same time as other Get calls, returns the same Logger
\* instance: the one cached for the name, which is never replaced; the
\* instances of different names are different.
C21_OneInstancePerName ==
    [][/\ \A n \in DOMAIN instances :
              n \in DOMAIN instances' /\ instances'[n] = instances[n]
       /\ \A g \in Getters :
              getters'[g].pc = "done" =>
                  /\ getters'[g].name \in DOMAIN instances'
                  /\ getters'[g].ret = instances'[getters'[g].name]
       /\ call'.op = "ManagerGet" =>
              /\ call'.name \in DOMAIN instances'
              /\ call'.obj = instances'[call'.name]
       /\ \A n1, n2 \in DOMAIN instances' :
              n1 # n2 => instances'[n1] # instances'[n2]]_vars

\* C21 witness: two goroutines were in Get("a") at the same time and both
\* have returned the logger that g2 allocated; the one g1 allocated is
\* cached nowhere.
C21_Witness ==
    /\ getters["g1"] = [name |-> nA, ret |-> NewLoggerObject(nA, "g2"),
                        pc |-> "done"]
    /\ getters["g2"] = [name |-> nA, ret |-> NewLoggerObject(nA, "g2"),
                        pc |-> "done"]
    /\ nA \in DOMAIN instances
    /\ instances[nA] = NewLoggerObject(nA, "g2")

\* C22: GetManager returns an error if and only if no manager is
\* registered; Get(name) of the package called with no manager registered
\* returns a working Logger, and it leaves the registration as it is, so a
\* following GetManager still returns the error.
C22_OnlyGetManagerReportsNoManager ==
    [][/\ call'.op = "GetManager" =>
              /\ call'.ok <=> registeredManager # "nil"
              /\ call'.key = registeredManager
              /\ registeredManager' = registeredManager
       /\ call'.op = "GetRegistered" =>
              /\ registeredManager' = registeredManager
              /\ call'.obj.by # "none"
              /\ call'.lvl \in Levels
       /\ (call.op = "GetRegistered" /\ call.key = "temp"
           /\ call'.op = "GetManager") => ~call'.ok]_vars

\* C22 witness: GetManager has returned the error after the manager, from
\* which the caller holds the logger a, was deregistered.
C22_Witness ==
    /\ call.op = "GetManager"
    /\ ~call.ok
    /\ registeredManager = "nil"
    /\ logger = Handle(nA)
    /\ nA \in DOMAIN instances

\* The fields of the printer logger.AtLevel builds: the level, then the name
\* of the logger under the key logger.
loggerAtLevelFields(name, level) ==
    <<Field("level", LevelValue(level)), Field("logger", StringValue(name))>>

\* C28: a logger returned for a requested name n carries that name: Name()
\* returns n and the logger field of its lines is n, both for
\* Manager.Get(n) and for Get(n) of the package, with a manager registered
\* or not.
C28_LoggerCarriesRequestedName ==
    call.op \in {"ManagerGet", "GetRegistered"} =>
        /\ call.obj.name = call.name
        /\ loggerAtLevelFields(call.obj.name, InfoLevel)[2]
               = Field("logger", StringValue(call.name))

\* C28 witness: Get("a/b") of the package with no manager registered has
\* returned a logger of the manager it built.
C28_Witness ==
    /\ call.op = "GetRegistered"
    /\ call.name = nA_B
    /\ call.key = "temp"
    /\ registeredManager = "nil"

\* C27: for a Print, Printf or Println on a stdPrinter whose output is k >= 0
\* OutPutFilter layers around a stdOutPutter, the frame depth handed to the
\* line writer is k + 3: each layer adds 1 to callDepth and the std
\* outputter adds 3.  That many frames up from the writer is the caller of
\* the print method, so the call site attributed is the caller's.
C27_DepthIsLayersPlusThree ==
    (call.op \in PrintOps /\ call.under # <<>>)
    => /\ out.depth = Len(output) + 3
       /\ Len(call.frames) > out.depth
       /\ call.frames[Len(call.frames) - out.depth] = "caller"
       /\ \A i \in 1..Len(call.frames) :
              i # Len(call.frames) - out.depth => call.frames[i] # "caller"

\* C27 witness: a line printed through two layers reached the writer with
\* the depth 5.
C27_Witness ==
    /\ call.op = "Println"
    /\ Len(output) = 2
    /\ call.under # <<>>
    /\ out.n > 0
    /\ out.depth = 5

\* C29: printing through an OutPutFilter leaves the field list of the
\* printer as it was: after any Print, Printf or Println on a stdPrinter
\* whose output is FilterRemoveField or FilterCoverField layers, the keys and
\* values of the printer are the ones its With calls set.
C29_PrintLeavesPrinterFields ==
    (/\ call.op \in PrintOps
     /\ printer.kind = "std"
     /\ output # <<>>
     /\ \A i \in 1..Len(output) :
            output[i].fieldModifyFunc \in {"remove", "cover"})
    => printer.fields = RefFields(ref)

\* C29 witness: after a Print through FilterRemoveField("passwd") the passwd
\* field that With put into the printer has the empty key.
C29_Witness ==
    /\ call.op = "Print"
    /\ output = <<FilterRemoveField("passwd")>>
    /\ printer.kind = "std"
    /\ Len(ref.order) = 3
    /\ ref.order[3] = "passwd"
    /\ Len(printer.fields) = 3
    /\ printer.fields[3].Key = ""

\* C23: a map that l.store or levelNames has pointed at is never changed by
\* a later Set, UnSet or RegisterLevelName: the pointers keep pointing at
\* the maps they were installed with, a goroutine that loaded one goes on
\* seeing the mapping it loaded, and every installed map is whole: a level
\* store is the result of the calls swapped before it, one at a time, a
\* table of names is an installed table with one finished registration.
C23_InstalledMapsNeverChange ==
    [][/\ \A i \in 1..Len(heap) : heap'[i] = heap[i]
       /\ \A i \in 1..Len(tables) : tables'[i] = tables[i]
       /\ store' = heap'[Len(heap')]
       /\ levelNames' = tables'[Len(tables')]
       /\ \A g \in Procs :
              procs'[g].pc \in {"copy", "cas"}
                  => procs'[g].oldMap = heap'[procs'[g].old]
       /\ \A i \in 1..Len(heap') :
              heap'[i] = SequentialStore(SubSeq(order', 1, i - 1))
       /\ \A i \in 2..Len(tables') :
              \E j \in 1..(i - 1), g \in Procs :
                  /\ regs'[g].pc = "done"
                  /\ tables'[i] = RegisterNameMap(tables'[j], regs'[g].level,
                                                  regs'[g].name)]_vars

\* C23 witness: a goroutine holds the first level store and has copied it,
\* and since then another store and another table of names are installed.
C23_Witness ==
    /\ Len(heap) = 2
    /\ Len(tables) = 2
    /\ tables[1] # levelNames
    /\ \E g \in Procs :
           /\ procs[g].pc = "cas"
           /\ procs[g].old = 1
           /\ procs[g].oldMap = heap[1]
           /\ heap[1] # store

\* C24: with finitely many goroutines in finitely many calls and a fair
\* scheduler, every Set, UnSet and RegisterLevelName that has started
\* returns; and a compare-and-swap fails only when the pointer is no longer
\* the one its goroutine read, that is when the swap of another goroutine
\* has succeeded meanwhile, and that goroutine has returned.
C24_EveryCallReturns ==
    /\ \A g \in Procs : procs[g].pc # "idle" ~> procs[g].pc = "done"
    /\ \A g \in Procs : regs[g].pc # "idle" ~> regs[g].pc = "done"
    /\ [][\A g \in Procs :
            /\ (procs[g].pc = "cas" /\ procs'[g].pc = "read")
                   => /\ procs[g].old < Len(heap)
                      /\ \E h \in Procs \ {g} :
                             /\ procs[h].pc = "done"
                             /\ \E i \in procs[g].old..Len(order) :
                                    order[i] = [name |-> procs[h].name,
                                                level |-> procs[h].level,
                                                op |-> procs[h].op]
            /\ (regs[g].pc = "cas" /\ regs'[g].pc = "range")
                   => /\ regs[g].old < Len(tables)
                      /\ \E h \in Procs \ {g} : regs[h].pc = "done"]_vars

\* C24 witness: all three calls have returned, on the level store and on the
\* table of names, one of them after a swap that failed.
C24_Witness ==
    /\ \A g \in Procs : procs[g].pc = "done" \/ regs[g].pc = "done"
    /\ \E g \in Procs : procs[g].pc = "done" /\ procs[g].retried
    /\ \E g \in Procs : regs[g].pc = "done"

====
